---- MODULE Spec2Model ----
(***************************************************************************)
(* Verification model of the message-analysis / conversation-memory /      *)
(* turn-processing core of the OASIS business simulator backend.           *)
(*                                                                         *)
(* Conventions                                                             *)
(*  - A message text is modelled by the set of vocabulary words it         *)
(*    contains (lower-cased, accents dropped).  The empty set is the       *)
(*    empty string; {"hola"} is a non-empty text without any cue.          *)
(*    `kw in msg_lower` is the substring test Has(msg, kw).                 *)
(*  - Floats in [0,1] are integers scaled by 100 (0.85 is 85).             *)
(*  - Python lists are sequences, in the order the code builds them.       *)
(*  - A call that may raise returns a record [ok, value, error, path]:     *)
(*    ok says whether it returned, value is what it returned, error is    *)
(*    the exception it raised, path lists the strategies that ran.        *)
(***************************************************************************)
EXTENDS Integers, Sequences, FiniteSets, TLC

VARIABLES llm, status, ended, messages, insights, analyses, last

vars == <<llm, status, ended, messages, insights, analyses, last>>

(***************************************************************************)
(* Bounds of the model                                                     *)
(***************************************************************************)
MaxMemTurns == 3
MaxPhaseTurns == 10
MaxTurnMsgs == 3

(***************************************************************************)
(* Generic helpers                                                         *)
(***************************************************************************)
Range(s) == {s[i] : i \in 1..Len(s)}

Min(a, b) == IF a < b THEN a ELSE b

Take(s, n) == SubSeq(s, 1, Min(n, Len(s)))

SeqIf(c, x) == IF c THEN <<x>> ELSE <<>>

NoDup(s) == \A i, j \in 1..Len(s) : i # j => s[i] # s[j]

RECURSIVE SetToSeq(_)
SetToSeq(S) == IF S = {} THEN <<>>
               ELSE LET x == CHOOSE y \in S : TRUE
                    IN <<x>> \o SetToSeq(S \ {x})

RECURSIVE Flatten(_)
Flatten(ss) == IF ss = <<>> THEN <<>> ELSE Head(ss) \o Flatten(Tail(ss))

NoValue == [none |-> TRUE]

Ok(v) == [ok |-> TRUE, value |-> v, error |-> "none", path |-> <<>>]

Raise(e) == [ok |-> FALSE, value |-> NoValue, error |-> e, path |-> <<>>]

\* r, with strategy p recorded in front of the strategies r already names
Via(p, r) == [r EXCEPT !.path = <<p>> \o r.path]

(***************************************************************************)
(* Message texts                                                           *)
(***************************************************************************)
\* Substrings(w): the cue keywords of the analyzer that occur inside word w.
Substrings(w) ==
    CASE w = "acepto"       -> {"acepto"}
      [] w = "de acuerdo"   -> {"de acuerdo"}
      [] w = "preocupa"     -> {"preocupa"}
      [] w = "propongo"     -> {"propongo"}
      [] w = "mi plan"      -> {"mi plan", "plan"}
      [] w = "urgente"      -> {"urgente"}
      [] w = "pronto"       -> {"pronto"}
      [] w = "importante"   -> {"importante"}
      [] w = "completado"   -> {"completado"}
      [] w = "progreso"     -> {"progreso"}
      [] w = "iniciando"    -> {"iniciando"}
      [] w = "$5M"          -> {"$"}
      [] w = "serie a"      -> {"serie a"}
      [] w = "20%"          -> {}
      [] w = "crecimiento"  -> {"crecimiento"}
      [] w = "10K usuarios" -> {"usuarios"}
      [] w = "equipo"       -> {"equipo"}
      [] w = "necesito"     -> {"necesito"}
      [] w = "dificil"      -> {"dificil"}
      [] OTHER              -> {}

\* `kw in msg_lower`
Has(msg, kw) == \E w \in msg : kw \in Substrings(w)

\* `any(word in msg_lower for word in kws)`
HasAny(msg, kws) == \E kw \in kws : Has(msg, kw)

(***************************************************************************)
(* Declared value sets of the structured analysis (pydantic models)        *)
(***************************************************************************)
EmotionSet == {"positive", "negative", "neutral", "frustrated", "confident",
               "hesitant", "aggressive", "collaborative"}

ImpactLevels == {"low", "medium", "high", "critical"}

FinancialImpactLevels == {"none", "low", "medium", "high", "critical"}

UrgencyLevels == {"low", "medium", "high", "immediate"}

\* EmotionAnalysis: Literal primary_emotion, confidence_score ge=0 le=1
ValidEmotionAnalysis(e) ==
    /\ e.primary_emotion \in EmotionSet
    /\ e.confidence_score >= 0 /\ e.confidence_score <= 100

\* BusinessImpactAssessment: four Literal fields
ValidBusinessImpact(b) ==
    /\ b.impact_level \in ImpactLevels
    /\ b.financial_impact \in FinancialImpactLevels
    /\ b.strategic_importance \in ImpactLevels
    /\ b.urgency_level \in UrgencyLevels

\* ObjectiveProgress without its Field(ge=..., le=...) constraints
ObjectiveProgressUnconstrained(o) == o.is_fully_completed \in BOOLEAN

\* ObjectiveProgress: completion_percentage ge=0 le=100, confidence ge=0 le=1
ValidObjectiveProgress(o) ==
    /\ o.completion_percentage >= 0 /\ o.completion_percentage <= 100
    /\ o.is_fully_completed \in BOOLEAN
    /\ o.confidence_in_assessment >= 0 /\ o.confidence_in_assessment <= 100

\* EndConditionAnalysis: likelihood_of_meeting ge=0 le=1
ValidEndCondition(c) ==
    /\ c.is_met \in BOOLEAN
    /\ c.likelihood_of_meeting >= 0 /\ c.likelihood_of_meeting <= 100

\* ComprehensiveMessageAnalysis(...): pydantic validates every nested model
\* when the object is constructed or parsed.
ValidAnalysis(a) ==
    /\ ValidEmotionAnalysis(a.emotion_analysis)
    /\ ValidBusinessImpact(a.business_impact)
    /\ \A i \in 1..Len(a.objective_progress) :
          ValidObjectiveProgress(a.objective_progress[i])
    /\ \A i \in 1..Len(a.end_condition_analysis) :
          ValidEndCondition(a.end_condition_analysis[i])

\* Constructing the model object: the object, or pydantic's ValidationError.
ComprehensiveMessageAnalysis(a) ==
    IF ValidAnalysis(a) THEN Ok(a) ELSE Raise("ValidationError")

(***************************************************************************)
(* Deterministic strategy: LLMAnalyzer._analyze_with_structured_logic      *)
(***************************************************************************)
_detect_emotion_intelligently(msg) ==
    IF HasAny(msg, {"perfecto", "excelente", "acepto", "de acuerdo"})
      THEN "positive"
    ELSE IF HasAny(msg, {"preocupa", "problema", "dificil", "no estoy seguro"})
      THEN "concerned"
    ELSE IF HasAny(msg, {"propongo", "sugiero", "creo que", "mi plan"})
      THEN "confident"
    ELSE IF HasAny(msg, {"urgente", "inmediatamente", "necesito ya"})
      THEN "frustrated"
    ELSE "neutral"

_extract_emotional_indicators(msg) ==
    Flatten(<<
      SeqIf(Has(msg, "perfecto"), "perfecto (indica positive)"),
      SeqIf(Has(msg, "excelente"), "excelente (indica positive)"),
      SeqIf(Has(msg, "genial"), "genial (indica positive)"),
      SeqIf(Has(msg, "preocupa"), "preocupa (indica concerned)"),
      SeqIf(Has(msg, "problema"), "problema (indica concerned)"),
      SeqIf(Has(msg, "dificil"), "dificil (indica concerned)"),
      SeqIf(Has(msg, "seguro"), "seguro (indica confident)"),
      SeqIf(Has(msg, "confio"), "confio (indica confident)"),
      SeqIf(Has(msg, "creo"), "creo (indica confident)"),
      SeqIf(Has(msg, "urgente"), "urgente (indica frustrated)"),
      SeqIf(Has(msg, "ya"), "ya (indica frustrated)"),
      SeqIf(Has(msg, "inmediatamente"), "inmediatamente (indica frustrated)")
    >>)

_extract_main_topics_intelligently(msg) ==
    Take(Flatten(<<
      SeqIf(HasAny(msg, {"usuarios", "clientes", "user"}), "usuarios"),
      SeqIf(HasAny(msg, {"crecimiento", "growth", "expansion"}), "crecimiento"),
      SeqIf(HasAny(msg, {"estrategia", "plan", "roadmap"}), "estrategia"),
      SeqIf(HasAny(msg, {"equipo", "team", "personas"}), "equipo"),
      SeqIf(HasAny(msg, {"producto", "product", "plataforma"}), "producto")
    >>), 5)

\* The regular expressions are modelled on the vocabulary words they match:
\* "$5M" (\$\d+[KMB]?), "20%" (\d+%), "10K usuarios" (\d+K?\s*usuarios?),
\* "serie a" (serie [ab], title-cased).
_extract_financial_data_intelligently(msg) ==
    Flatten(<<
      SeqIf("$5M" \in msg, "$5M"),
      SeqIf("20%" \in msg
            /\ HasAny(msg, {"crecimiento", "growth", "mensual", "anual"}), "20%"),
      SeqIf("10K usuarios" \in msg, "10K usuarios"),
      SeqIf(Has(msg, "serie a") \/ Has(msg, "serie b"), "Serie A")
    >>)

_extract_strategic_concepts_intelligently(msg) ==
    Flatten(<<
      SeqIf(HasAny(msg, {"plan", "planificacion", "planning"}), "plan"),
      SeqIf(HasAny(msg, {"expansion", "crecimiento"}), "expansion"),
      SeqIf(HasAny(msg, {"partnership", "alianza", "colaboracion"}), "partnership"),
      SeqIf(HasAny(msg, {"mercado", "market", "segmento"}), "mercado"),
      SeqIf(HasAny(msg, {"competencia", "competition", "rival"}), "competencia")
    >>)

_extract_stakeholders_intelligently(msg) ==
    Flatten(<<
      SeqIf(HasAny(msg, {"ceo", "director ejecutivo"}), "CEO"),
      SeqIf(HasAny(msg, {"equipo", "team"}), "equipo"),
      SeqIf(HasAny(msg, {"usuarios", "clientes", "users"}), "usuarios"),
      SeqIf(HasAny(msg, {"inversores", "investors", "vc"}), "inversores"),
      SeqIf(HasAny(msg, {"google", "ex-google"}), "Google")
    >>)

_extract_action_items_intelligently(msg) ==
    Flatten(<<
      SeqIf(HasAny(msg, {"necesito", "debemos", "vamos a"}), "accion requerida"),
      SeqIf(HasAny(msg, {"implementar", "ejecutar", "hacer"}), "implementacion"),
      SeqIf(HasAny(msg, {"revisar", "analizar", "evaluar"}), "analisis")
    >>)

_extract_concerns_intelligently(msg) ==
    Flatten(<<
      SeqIf(HasAny(msg, {"preocupa", "problema", "riesgo"}),
            "preocupacion identificada"),
      SeqIf(HasAny(msg, {"dificil", "complicado", "desafio"}),
            "desafio mencionado")
    >>)

_assess_impact_level_intelligently(msg) ==
    IF HasAny(msg, {"critico", "urgente", "inmediatamente"}) THEN "critical"
    ELSE IF HasAny(msg, {"importante", "significativo", "inversion"}) THEN "high"
    ELSE IF HasAny(msg, {"necesario", "requerido", "plan"}) THEN "medium"
    ELSE "low"

_assess_financial_impact_intelligently(msg) ==
    IF HasAny(msg, {"$", "millones", "inversion", "serie a"}) THEN "high"
    ELSE IF HasAny(msg, {"presupuesto", "costo", "precio"}) THEN "medium"
    ELSE IF HasAny(msg, {"usuarios", "crecimiento"}) THEN "low"
    ELSE "none"

_assess_strategic_importance_intelligently(msg) ==
    IF HasAny(msg, {"estrategia", "vision", "mision"}) THEN "critical"
    ELSE IF HasAny(msg, {"plan", "roadmap", "expansion"}) THEN "high"
    ELSE IF HasAny(msg, {"objetivo", "meta", "proyecto"}) THEN "medium"
    ELSE "low"

_assess_urgency_intelligently(msg) ==
    IF HasAny(msg, {"urgente", "inmediatamente", "ya"}) THEN "immediate"
    ELSE IF HasAny(msg, {"pronto", "rapido", "esta semana"}) THEN "high"
    ELSE "medium"

_identify_risks_intelligently(msg) ==
    Flatten(<<
      SeqIf(HasAny(msg, {"competencia", "rival"}), "riesgo competitivo"),
      SeqIf(HasAny(msg, {"presupuesto", "costo", "dinero"}), "riesgo financiero"),
      SeqIf(HasAny(msg, {"tiempo", "deadline", "plazo"}), "riesgo temporal")
    >>)

_identify_opportunities_intelligently(msg) ==
    Flatten(<<
      SeqIf(HasAny(msg, {"crecimiento", "expansion", "mercado"}),
            "oportunidad de crecimiento"),
      SeqIf(HasAny(msg, {"partnership", "alianza", "colaboracion"}),
            "oportunidad de partnership")
    >>)

_calculate_progress_intelligently(msg, obj) ==
    IF HasAny(msg, {"completado", "terminado", "listo"}) THEN 90
    ELSE IF HasAny(msg, {"progreso", "avanzando", "trabajando"}) THEN 60
    ELSE IF HasAny(msg, {"iniciando", "empezando", "comenzando"}) THEN 30
    ELSE 0

_is_objective_completed_intelligently(msg, obj) ==
    _calculate_progress_intelligently(msg, obj) >= 90

_find_completion_evidence_intelligently(msg) ==
    Flatten(<<
      SeqIf(Has(msg, "completado"), "usuario menciono completado"),
      SeqIf(Has(msg, "listo"), "usuario indico que esta listo")
    >>)

_identify_remaining_requirements_intelligently(msg) ==
    SeqIf(HasAny(msg, {"necesito", "falta", "requiero"}),
          "requisitos adicionales mencionados")

\* End-condition texts are modelled by the tag of whether they mention
\* "acuerdo": the text "acuerdo final" does, every other text does not.
\* The keyword written "si" is the accented word of the source, which an
\* unaccented "si" inside another word does not match.
_is_condition_met_intelligently(msg, cond) ==
    cond = "acuerdo final" /\ HasAny(msg, {"acepto", "de acuerdo", "si"})

_recommend_approach_intelligently(msg) ==
    IF HasAny(msg, {"preocupa", "problema"})
      THEN "Abordar preocupaciones con empatia y soluciones concretas"
    ELSE IF HasAny(msg, {"propongo", "sugiero"})
      THEN "Evaluar propuesta y hacer preguntas de seguimiento"
    ELSE "Mantener conversacion productiva y explorar detalles"

\* The record handed to the ComprehensiveMessageAnalysis constructor.
StructuredLogicFields(msg, user_objectives, end_conditions) ==
    [ emotion_analysis |->
        [ primary_emotion      |-> _detect_emotion_intelligently(msg),
          confidence_score     |-> 85,
          emotional_indicators |-> _extract_emotional_indicators(msg) ],
      key_points |->
        [ main_topics            |-> _extract_main_topics_intelligently(msg),
          financial_mentions     |-> _extract_financial_data_intelligently(msg),
          strategic_concepts     |-> _extract_strategic_concepts_intelligently(msg),
          stakeholders_mentioned |-> _extract_stakeholders_intelligently(msg),
          action_items           |-> _extract_action_items_intelligently(msg),
          concerns_raised        |-> _extract_concerns_intelligently(msg) ],
      business_impact |->
        [ impact_level         |-> _assess_impact_level_intelligently(msg),
          financial_impact     |-> _assess_financial_impact_intelligently(msg),
          strategic_importance |-> _assess_strategic_importance_intelligently(msg),
          urgency_level        |-> _assess_urgency_intelligently(msg),
          risk_factors         |-> _identify_risks_intelligently(msg),
          opportunities        |-> _identify_opportunities_intelligently(msg) ],
      objective_progress |->
        [ i \in 1..Len(Take(user_objectives, 3)) |->
            [ objective_text           |-> user_objectives[i],
              completion_percentage    |->
                  _calculate_progress_intelligently(msg, user_objectives[i]),
              is_fully_completed       |->
                  _is_objective_completed_intelligently(msg, user_objectives[i]),
              evidence_for_completion  |->
                  _find_completion_evidence_intelligently(msg),
              remaining_requirements   |->
                  _identify_remaining_requirements_intelligently(msg),
              confidence_in_assessment |-> 80 ] ],
      end_condition_analysis |->
        [ i \in 1..Len(Take(end_conditions, 2)) |->
            [ condition_text        |-> end_conditions[i],
              is_met                |->
                  _is_condition_met_intelligently(msg, end_conditions[i]),
              likelihood_of_meeting |-> 50 ] ],
      recommended_ai_approach |-> _recommend_approach_intelligently(msg) ]

_analyze_with_structured_logic(msg, user_objectives, end_conditions) ==
    Via("deterministic",
        ComprehensiveMessageAnalysis(
            StructuredLogicFields(msg, user_objectives, end_conditions)))

(***************************************************************************)
(* Generative strategy: LLMAnalyzer._analyze_with_real_llm                 *)
(***************************************************************************)
\* What the backing capability may answer to one request: no answer
\* (unreachable, timeout), text that is no JSON (malformed), or JSON with
\* the fields of an analysis, whose values the capability chooses freely.
LLMFields(e, c, imp, urg, pct, done, lik) ==
    [ emotion_analysis |->
        [ primary_emotion |-> e, confidence_score |-> c,
          emotional_indicators |-> <<"tono">> ],
      key_points |->
        [ main_topics            |-> <<"valoracion">>,
          financial_mentions     |-> <<"$5M">>,
          strategic_concepts     |-> <<>>,
          stakeholders_mentioned |-> <<"junta">>,
          action_items           |-> <<>>,
          concerns_raised        |-> <<"dilucion">> ],
      business_impact |->
        [ impact_level |-> imp, financial_impact |-> "medium",
          strategic_importance |-> "high", urgency_level |-> urg,
          risk_factors |-> <<>>, opportunities |-> <<>> ],
      objective_progress |->
        << [ objective_text |-> "Cerrar acuerdo", completion_percentage |-> pct,
             is_fully_completed |-> done, evidence_for_completion |-> <<>>,
             remaining_requirements |-> <<>>, confidence_in_assessment |-> c ] >>,
      end_condition_analysis |->
        << [ condition_text |-> "acuerdo final", is_met |-> done,
             likelihood_of_meeting |-> lik ] >>,
      recommended_ai_approach |-> "Responder de manera contextual y profesional" ]

\* An answer with one entry for each objective and each end condition the
\* prompt lists: the prompt is given user_objectives and end_conditions whole.
LLMFieldsFor(user_objectives, end_conditions) ==
    [ LLMFields("hesitant", 100, "low", "low", 100, TRUE, 100) EXCEPT
        !.objective_progress =
            [ i \in 1..Len(user_objectives) |->
                [ objective_text |-> user_objectives[i],
                  completion_percentage |-> 100, is_fully_completed |-> TRUE,
                  evidence_for_completion |-> <<>>,
                  remaining_requirements |-> <<>>,
                  confidence_in_assessment |-> 100 ] ],
        !.end_condition_analysis =
            [ i \in 1..Len(end_conditions) |->
                [ condition_text |-> end_conditions[i], is_met |-> TRUE,
                  likelihood_of_meeting |-> 100 ] ] ]

\* The answers tried: one that the model object accepts, every answer that
\* differs from it in one field, and one with an entry per listed item.
LLMAnswer ==
    [ e |-> "hesitant", c |-> 100, imp |-> "low", urg |-> "low",
      pct |-> 100, done |-> TRUE, lik |-> 100 ]

LLMJson ==
    { LLMFields(v.e, v.c, v.imp, v.urg, v.pct, v.done, v.lik) :
        v \in { w \in [ e : {"hesitant", "concerned"}, c : {0, 100, 130},
                        imp : {"low", "severe"}, urg : {"low", "immediate"},
                        pct : {-5, 50, 100, 101}, done : BOOLEAN,
                        lik : {0, 100, 120} ] :
                  Cardinality({f \in DOMAIN w : w[f] # LLMAnswer[f]}) <= 1 } }
    \cup { LLMFieldsFor(<<"o1", "o2", "o3", "o4">>, <<"acuerdo final", "c2", "c3">>) }

LLMOutcomes ==
    { [kind |-> k, fields |-> NoValue] : k \in {"unreachable", "timeout", "malformed"} }
    \cup { [kind |-> "json", fields |-> f] : f \in LLMJson }

\* self.llm.invoke(formatted_prompt): the answer text, or the transport error
LLMInvoke(outcome) ==
    IF outcome.kind \in {"unreachable", "timeout"}
      THEN Raise("LLMError") ELSE Ok(outcome)

\* parser.parse(response.content): PydanticOutputParser raises
\* OutputParserException for text that is no JSON and for JSON that the
\* ComprehensiveMessageAnalysis model rejects.
ParserParse(outcome) ==
    IF outcome.kind = "json" /\ ComprehensiveMessageAnalysis(outcome.fields).ok
      THEN Ok(outcome.fields) ELSE Raise("OutputParserException")

_analyze_with_real_llm(msg, user_objectives, end_conditions, outcome) ==
    LET response == LLMInvoke(outcome)
        analysis == IF response.ok THEN ParserParse(response.value) ELSE response
    IN IF analysis.ok
         THEN Via("generative", analysis)
         \* except Exception: return self._analyze_with_structured_logic(...)
         ELSE Via("generative",
                  _analyze_with_structured_logic(msg, user_objectives, end_conditions))

\* provider is self.llm_provider: "openai" when self.llm is set,
\* "structured_local" when self.llm is None.
analyze_message_comprehensive(provider, msg, user_objectives, end_conditions, outcome) ==
    IF provider = "openai"
      THEN _analyze_with_real_llm(msg, user_objectives, end_conditions, outcome)
      ELSE _analyze_with_structured_logic(msg, user_objectives, end_conditions)

(***************************************************************************)
(* Texts with their surrounding whitespace, and the stored records         *)
(***************************************************************************)
\* A text: lead says whether it starts or ends with whitespace, words is
\* the set of vocabulary words in it.  "" is Text(FALSE, {}), "   " is
\* Text(TRUE, {}).
Text(lead, words) == [lead |-> lead, words |-> words]

\* A strip() that leaves the surrounding whitespace in place
StripNothing(t) == t

\* `not s` for a Python string
IsEmptyStr(t) == ~t.lead /\ t.words = {}

\* str.strip()
Strip(t) == Text(FALSE, t.words)

\* Python None of a nullable CharField
None == "None"

\* `if x:` for a nullable string field
Truthy(x) == x # None /\ x # ""

\* Message.llm_analysis: default dict(), or what store_message_insights puts
EmptyDict == [present |-> FALSE, primary_emotion |-> None]

\* Message.objects.create(simulation=..., sender=..., content=..., emotion=...)
NewMessage(sender, content, emotion) ==
    [ sender |-> sender, content |-> content, emotion |-> emotion,
      llm_analysis |-> EmptyDict,
      key_points |-> <<>>, financial_mentions |-> <<>>,
      strategic_concepts |-> <<>>, stakeholders_mentioned |-> <<>>,
      action_items |-> <<>>, concerns_raised |-> <<>>,
      business_impact_level |-> None, urgency_level |-> None,
      confidence_score |-> 0 ]

NoInsights == [exists |-> FALSE]

\* ConversationInsights.objects.get_or_create(..., defaults={...}) on create
DefaultInsights ==
    [ exists |-> TRUE,
      all_key_points |-> <<>>, all_financial_mentions |-> <<>>,
      all_strategic_concepts |-> <<>>, all_stakeholders |-> <<>>,
      all_action_items |-> <<>>, all_concerns |-> <<>>,
      highest_impact_level |-> "medium", peak_urgency_level |-> "medium",
      dominant_emotions |-> <<>>, conversation_phases |-> <<>>,
      conversation_summary |->
          [ phase |-> "iniciada", count |-> 0, topics |-> <<>>, impact |-> "medium" ] ]

(***************************************************************************)
(* Conversation memory: ConversationMemoryService                          *)
(***************************************************************************)
\* The fields the dict branch of store_message_insights copies, applied to
\* an analysis object: stakeholders, action items and concerns are left out.
StoredMessageThreeLists(m, a) ==
    [ m EXCEPT
        !.key_points = a.key_points.main_topics,
        !.financial_mentions = a.key_points.financial_mentions,
        !.strategic_concepts = a.key_points.strategic_concepts,
        !.business_impact_level = a.business_impact.impact_level,
        !.urgency_level = a.business_impact.urgency_level,
        !.confidence_score = 70,
        !.llm_analysis = [ present |-> TRUE,
                           primary_emotion |-> a.emotion_analysis.primary_emotion ] ]

\* store_message_insights, pydantic branch: the fields copied to the message
StoredMessage(m, a) ==
    [ m EXCEPT
        !.key_points = a.key_points.main_topics,
        !.financial_mentions = a.key_points.financial_mentions,
        !.strategic_concepts = a.key_points.strategic_concepts,
        !.stakeholders_mentioned = a.key_points.stakeholders_mentioned,
        !.action_items = a.key_points.action_items,
        !.concerns_raised = a.key_points.concerns_raised,
        !.business_impact_level = a.business_impact.impact_level,
        !.urgency_level = a.business_impact.urgency_level,
        !.confidence_score = a.emotion_analysis.confidence_score,
        !.llm_analysis = [ present |-> TRUE,
                           primary_emotion |-> a.emotion_analysis.primary_emotion ] ]

\* list(xs): the concatenation kept as it is
ConcatOnly(xs) == xs

\* list(set(xs)); the order Python gives the result is not specified and no
\* property below reads it.
Dedup(xs) == SetToSeq(Range(xs))

impact_priority(x) ==
    CASE x = "critical" -> 4 [] x = "high" -> 3 [] x = "medium" -> 2
      [] x = "low" -> 1 [] OTHER -> 0

urgency_priority(x) ==
    CASE x = "immediate" -> 4 [] x = "high" -> 3 [] x = "medium" -> 2
      [] x = "low" -> 1 [] OTHER -> 0

\* max(levels, key=impact_priority): the first element of the highest rank
MaxImpact(levels) ==
    levels[CHOOSE i \in 1..Len(levels) :
             /\ \A j \in 1..Len(levels) :
                   impact_priority(levels[j]) <= impact_priority(levels[i])
             /\ \A j \in 1..(i - 1) :
                   impact_priority(levels[j]) < impact_priority(levels[i])]

MaxUrgency(levels) ==
    levels[CHOOSE i \in 1..Len(levels) :
             /\ \A j \in 1..Len(levels) :
                   urgency_priority(levels[j]) <= urgency_priority(levels[i])
             /\ \A j \in 1..(i - 1) :
                   urgency_priority(levels[j]) < urgency_priority(levels[i])]

Occurrences(xs, x) == Cardinality({i \in 1..Len(xs) : xs[i] = x})

\* the keys of emotion_counts, in insertion order
RECURSIVE FirstSeen(_)
FirstSeen(xs) ==
    IF xs = <<>> THEN <<>>
    ELSE LET rest == FirstSeen(SubSeq(xs, 1, Len(xs) - 1))
             x == xs[Len(xs)]
         IN IF x \in Range(rest) THEN rest ELSE Append(rest, x)

\* sorted(emotion_counts.items(), key=count, reverse=True): stable
RECURSIVE ByCountDesc(_, _)
ByCountDesc(keys, xs) ==
    IF keys = <<>> THEN <<>>
    ELSE LET i == CHOOSE k \in 1..Len(keys) :
                    /\ \A j \in 1..Len(keys) :
                          Occurrences(xs, keys[j]) <= Occurrences(xs, keys[k])
                    /\ \A j \in 1..(k - 1) :
                          Occurrences(xs, keys[j]) < Occurrences(xs, keys[k])
         IN <<keys[i]>> \o
            ByCountDesc(SubSeq(keys, 1, i - 1) \o SubSeq(keys, i + 1, Len(keys)), xs)

PhaseOf(message_count) ==
    IF message_count <= 2 THEN "opening"
    ELSE IF message_count <= 5 THEN "development"
    ELSE IF message_count <= 8 THEN "negotiation"
    ELSE "closing"

\* phases + [phase], whatever phases holds
AppendPhaseAlways(phases, phase) == Append(phases, phase)

\* phases + [phase] if phase not in phases else phases
AppendPhase(phases, phase) ==
    IF phase \notin Range(phases) THEN Append(phases, phase) ELSE phases

IsAnalysedUserMessage(m) == m.sender = "user" /\ m.llm_analysis.present

\* update_conversation_insights(simulation): the insights record it saves
\* and returns, given the record the simulation has (ins) and its messages.
update_conversation_insights(ins, msgs) ==
    LET created == IF ins.exists THEN ins ELSE DefaultInsights
        user_messages == SelectSeq(msgs, IsAnalysedUserMessage)
        n == Len(user_messages)
        Gather(field) == Flatten([i \in 1..n |-> user_messages[i][field]])
        NonEmpty(field) ==
            Flatten([i \in 1..n |->
                SeqIf(Truthy(user_messages[i][field]), user_messages[i][field])])
        impact_levels == NonEmpty("business_impact_level")
        urgency_levels == NonEmpty("urgency_level")
        all_emotions == NonEmpty("emotion")
        phase == PhaseOf(n)
        key_points == Dedup(Gather("key_points"))
        highest == IF impact_levels # <<>> THEN MaxImpact(impact_levels)
                   ELSE created.highest_impact_level
    IN IF n = 0 THEN created
       ELSE [ created EXCEPT
                !.all_key_points = key_points,
                !.all_financial_mentions = Dedup(Gather("financial_mentions")),
                !.all_strategic_concepts = Dedup(Gather("strategic_concepts")),
                !.all_stakeholders = Dedup(Gather("stakeholders_mentioned")),
                !.all_action_items = Dedup(Gather("action_items")),
                !.all_concerns = Dedup(Gather("concerns_raised")),
                !.highest_impact_level = highest,
                !.peak_urgency_level =
                    IF urgency_levels # <<>> THEN MaxUrgency(urgency_levels)
                    ELSE created.peak_urgency_level,
                !.dominant_emotions =
                    Take(ByCountDesc(FirstSeen(all_emotions), all_emotions), 3),
                !.conversation_phases = AppendPhase(created.conversation_phases, phase),
                !.conversation_summary =
                    [ phase |-> phase, count |-> n, topics |-> Take(key_points, 3),
                      impact |-> highest ] ]

\* store_message_insights(message, llm_analysis) for message number i and a
\* ComprehensiveMessageAnalysis object a: the messages and the insights after
\* message.save() and update_conversation_insights(message.simulation).
store_message_insights(msgs, ins, i, a) ==
    LET saved == [msgs EXCEPT ![i] = StoredMessage(msgs[i], a)]
    IN [ messages |-> saved, insights |-> update_conversation_insights(ins, saved) ]

(***************************************************************************)
(* Turn processing: StructuredSimulationAgent.process_message              *)
(***************************************************************************)
\* The parameters analyze_message_comprehensive declares (besides self)
analyze_message_comprehensive_params ==
    {"user_message", "conversation_history", "scenario_context",
     "user_objectives", "end_conditions", "ai_personality", "force_real_llm"}

\* The keyword arguments process_message passes to it
process_message_kwargs ==
    {"user_message", "conversation_history", "scenario_context",
     "user_objectives", "end_conditions", "ai_personality",
     "ai_role", "ai_objectives", "knowledge_base"}

\* The attributes of a ComprehensiveMessageAnalysis object
analysis_attributes ==
    {"emotion_analysis", "key_points", "business_impact", "objective_progress",
     "end_condition_analysis", "conversation_summary", "recommended_ai_approach"}

\* The attributes process_message reads from the analysis right after the call
process_message_reads ==
    {"emotion_analysis", "key_points", "business_impact", "role_context",
     "recommended_ai_approach"}

\* A Python call with keyword arguments: an argument the function does not
\* declare raises TypeError before the body runs.
PyCall(kwargs, params, result) ==
    IF kwargs \subseteq params THEN result ELSE Raise("TypeError")

\* Reading attributes of a pydantic object: AttributeError for one it lacks.
PyGetAttrs(r, names, attributes) ==
    IF r.ok /\ ~(names \subseteq attributes) THEN Raise("AttributeError") ELSE r

\* The "User: ..." / "AI: ..." lines send_message builds from the messages
StateMessages(msgs) ==
    [ i \in 1..Len(msgs) |->
        [ user |-> msgs[i].sender = "user", content |-> msgs[i].content ] ]

\* for msg in reversed(state.messages): if msg.startswith('User:'):
\*     last_user_message = msg[5:].  The line is "User: " + content, so the
\* slice keeps the blank after the colon.
LastUserMessage(lines) ==
    LET users == {i \in 1..Len(lines) : lines[i].user}
    IN IF users = {} THEN Text(FALSE, {})
       ELSE LET i == CHOOSE k \in users : \A j \in users : j <= k
            IN Text(TRUE, lines[i].content.words)

AIResponseEmotions == {"positive", "neutral", "skeptical", "concerned", "encouraging"}

\* confidence_level=min(95, 70 + len(strategic_response) // 20)
ConfidenceLevel(response_len) == Min(95, 70 + response_len \div 20)

\* AIResponse(...): Literal emotion, confidence_level ge=1 le=10,
\* Literal business_impact
AIResponse(r) ==
    IF /\ r.emotion \in AIResponseEmotions
       /\ r.confidence_level >= 1 /\ r.confidence_level <= 10
       /\ r.business_impact \in ImpactLevels
      THEN Ok(r) ELSE Raise("ValidationError")

(***************************************************************************)
(* Python strings.  The sentences of the replies are kept as they are in   *)
(* the source, accents dropped and the inverted marks written ? and !, so  *)
(* that every string has the length it has in the program.                 *)
(***************************************************************************)
\* `sub in s`
Contains(s, sub) ==
    \E i \in 1..(Len(s) - Len(sub) + 1) : SubSeq(s, i, i + Len(sub) - 1) = sub

\* s.startswith(p)
StartsWith(s, p) == Len(s) >= Len(p) /\ SubSeq(s, 1, Len(p)) = p

LowerChar(c) ==
    CASE c = "A" -> "a" [] c = "B" -> "b" [] c = "C" -> "c" [] c = "D" -> "d"
      [] c = "E" -> "e" [] c = "F" -> "f" [] c = "G" -> "g" [] c = "H" -> "h"
      [] c = "I" -> "i" [] c = "J" -> "j" [] c = "K" -> "k" [] c = "L" -> "l"
      [] c = "M" -> "m" [] c = "N" -> "n" [] c = "O" -> "o" [] c = "P" -> "p"
      [] c = "Q" -> "q" [] c = "R" -> "r" [] c = "S" -> "s" [] c = "T" -> "t"
      [] c = "U" -> "u" [] c = "V" -> "v" [] c = "W" -> "w" [] c = "X" -> "x"
      [] c = "Y" -> "y" [] c = "Z" -> "z" [] OTHER -> c

\* s.lower()
RECURSIVE Lower(_)
Lower(s) ==
    IF Len(s) <= 1 THEN LowerChar(s)
    ELSE Lower(SubSeq(s, 1, Len(s) \div 2))
         \o Lower(SubSeq(s, Len(s) \div 2 + 1, Len(s)))

\* sep.join(xs)
RECURSIVE Join(_, _)
Join(xs, sep) ==
    IF xs = <<>> THEN ""
    ELSE IF Len(xs) = 1 THEN xs[1]
    ELSE xs[1] \o sep \o Join(Tail(xs), sep)

\* any(term in s for term in terms)
ContainsAny(s, terms) == \E t \in terms : Contains(s, t)

(***************************************************************************)
(* Response synthesis: StructuredSimulationAgent                           *)
(***************************************************************************)
\* _build_executive_response(user_message, llm_analysis, state)
_build_executive_response(a, state) ==
    LET ai_role == state.ai_role
        ai_objectives == state.ai_objectives
        emotion == a.emotion_analysis.primary_emotion
        opening_part ==
            IF Contains(ai_role, "CEO") \/ Contains(ai_role, "Founder")
              THEN IF emotion \in {"frustrated", "aggressive"}
                     THEN <<"Entiendo la presion. Como founder, he pasado por situaciones similares.">>
                   ELSE IF emotion \in {"confident", "positive"}
                     THEN <<"Me gusta esa confianza. Es el tipo de mentalidad que necesitamos.">>
                   ELSE <<"Aprecio la claridad de su propuesta.">>
            ELSE IF Contains(ai_role, "VP") \/ Contains(ai_role, "Director")
              THEN IF emotion \in {"frustrated", "aggressive"}
                     THEN <<"Comparto su sentido de urgencia. La situacion requiere accion inmediata.">>
                   ELSE IF emotion \in {"confident", "positive"}
                     THEN <<"Su aproximacion es solida. Vamos a profundizar en los detalles.">>
                   ELSE <<"Revisemos los elementos clave de lo que plantea.">>
            ELSE <<>>
        financial_mentions == a.key_points.financial_mentions
        financial_context == Join(Take(financial_mentions, 2), ", ")
        financial_part ==
            IF financial_mentions = <<>> THEN <<>>
            ELSE IF Contains(Lower(state.scenario_context), "fintech")
              THEN <<"Respecto a " \o financial_context \o ", nuestros benchmarks con Nubank y Clara muestran diferentes dinamicas de valoracion. Necesito entender mejor sus assumptions sobre nuestro multiple de revenue.">>
            ELSE IF Contains(Lower(state.scenario_context), "crisis")
              THEN <<"Los numeros que menciona (" \o financial_context \o ") coinciden con nuestro analisis interno. Ya tenemos un plan de recovery que nos lleva a break-even en Q2.">>
            ELSE <<"Los aspectos financieros (" \o financial_context \o ") son criticos. ?Cual es el modelo de negocio detras de estas proyecciones?">>
        primary_objective == Lower(ai_objectives[1])
        strategic_part ==
            IF a.key_points.strategic_concepts = <<>> \/ ai_objectives = <<>> THEN <<>>
            ELSE IF Contains(primary_objective, "valoracion")
              THEN <<"Mi prioridad es maximizar value para todos los stakeholders. ?Como estructura su oferta para alinear incentivos a largo plazo?">>
            ELSE IF Contains(primary_objective, "estabilizar")
              THEN <<"Lo critico es stabilizar operaciones. ?Que level de authority tiene para implementar las medidas que necesitamos?">>
            ELSE IF Contains(primary_objective, "cerrar")
              THEN <<"Para cerrar esta ronda necesito ver commitment real. ?Cual es su timeline para due diligence y terminos definitivos?">>
            ELSE <<>>
        urgency_part ==
            SeqIf(a.business_impact.urgency_level = "immediate",
                  "El timing es crucial aqui. Tenemos board meeting en dos semanas y necesitamos clarity antes de esa fecha.")
        action_items == a.key_points.action_items
        action_part ==
            IF action_items = <<>> THEN <<>>
            ELSE <<"Propongo que nos enfoquemos en " \o Join(Take(action_items, 2), ", ") \o ". ?Puede comprometerse a tener esos deliverables para viernes?">>
        response_components ==
            opening_part \o financial_part \o strategic_part \o urgency_part \o action_part
        n == Len(response_components)
    IN IF n >= 3
         THEN response_components[1] \o " "
              \o Join(SubSeq(response_components, 2, 3), " ") \o " "
              \o (IF n > 3 THEN response_components[n]
                  ELSE "?Cuales son los proximos pasos concretos?")
       ELSE IF n > 0 THEN Join(response_components, " ")
       ELSE "Necesito mas detalles para evaluar esta propuesta adecuadamente."

\* re.findall(r'\$(\d+)M|\$(\d+)K|(\d+)%', mention): the non-empty groups of
\* the first match, for the mentions of the vocabulary.
MentionNumbers(mention) ==
    CASE mention = "$5M" -> <<5>> [] mention = "$25M" -> <<25>>
      [] mention = "20%" -> <<20>> [] OTHER -> <<>>

\* _analyze_objective_alignment(user_message, llm_analysis, state)
_analyze_objective_alignment(a, state) ==
    LET neutral == [ conflicts |-> <<>>, alignments |-> <<>>,
                     ai_defensive_points |-> <<>>, ai_leverage_points |-> <<>>,
                     negotiation_strategy |-> "neutral" ]
        goals == Lower(Join(state.ai_objectives, " "))
        context == Lower(state.scenario_context)
        financial_mentions == a.key_points.financial_mentions
        numbers == Flatten([i \in 1..Len(financial_mentions) |->
                               MentionNumbers(financial_mentions[i])])
    IN IF state.ai_objectives = <<>> \/ state.user_objectives = <<>> THEN neutral
       ELSE IF Contains(context, "fintech") /\ Contains(goals, "valoracion")
         THEN IF financial_mentions # <<>> /\ \E i \in 1..Len(numbers) : numbers[i] > 20
                THEN [ neutral EXCEPT
                         !.conflicts = <<"Usuario ofrece valoracion alta vs AI quiere maximizar value">>,
                         !.ai_defensive_points = <<"Nuestras metricas y benchmarks de mercado">>,
                         !.negotiation_strategy = "protective_with_data" ]
              ELSE neutral
       ELSE IF Contains(context, "crisis") /\ Contains(goals, "estabilizar")
         THEN IF a.business_impact.urgency_level = "immediate"
                THEN [ neutral EXCEPT
                         !.alignments = <<"Ambos reconocen urgencia de la situacion">>,
                         !.ai_leverage_points = <<"Experiencia en crisis management">>,
                         !.negotiation_strategy = "collaborative_urgent" ]
              ELSE neutral
       ELSE neutral

\* _apply_objective_driven_strategy(base_response, objective_analysis, state)
_apply_objective_driven_strategy(base_response, objective_analysis) ==
    LET strategy == objective_analysis.negotiation_strategy
        data_qualifier == "Basandome en nuestro track record y benchmarks de mercado, "
        urgency_qualifier == "Compartimos esa urgencia. "
        qualified ==
            IF strategy = "protective_with_data"
              THEN IF ~StartsWith(base_response, SubSeq(data_qualifier, 1, 20))
                     THEN data_qualifier \o Lower(base_response)
                   ELSE base_response
            ELSE IF strategy = "collaborative_urgent"
              THEN IF ~Contains(Lower(base_response), "urgencia")
                     THEN urgency_qualifier \o base_response
                   ELSE base_response
            ELSE base_response
    IN IF objective_analysis.conflicts # <<>>
          /\ objective_analysis.ai_leverage_points # <<>>
         THEN qualified \o " Mi experiencia en "
              \o objective_analysis.ai_leverage_points[1]
              \o " me dice que necesitamos ser estrategicos aqui."
       ELSE qualified

\* _generate_strategic_follow_up(llm_analysis, state)
_generate_strategic_follow_up(a, state) ==
    IF Contains(state.ai_role, "CEO") \/ Contains(state.ai_role, "Founder")
      THEN IF a.key_points.financial_mentions # <<>>
             THEN "?Podria compartir su modelo financiero detallado y assumptions de crecimiento?"
           ELSE "?Cual es su vision a 3 anos para esta partnership/acquisition?"
    ELSE IF Contains(state.ai_role, "VP") \/ Contains(state.ai_role, "Director")
      THEN IF a.business_impact.impact_level = "critical"
             THEN "?Que recursos necesita para implementar esto inmediatamente?"
           ELSE "?Como mediremos el exito de esta iniciativa?"
    ELSE "?Cuales son los proximos pasos especificos que propone?"

\* is_executive_level of _generate_contextual_response
IsExecutiveLevel(base_response) ==
    /\ base_response # ""
    /\ Len(base_response) > 80
    /\ ContainsAny(Lower(base_response),
           {"valoracion", "revenue", "board", "stakeholder", "pipeline", "metrics",
            "due diligence", "growth", "market", "capital", "competition", "strategy"})
    /\ ~ContainsAny(Lower(base_response),
           {"mantener conversacion", "elaborar mas", "aspectos especificos",
            "recomiendo que"})

\* The text _generate_contextual_response hands to AIResponse as content
StrategicResponse(a, state) ==
    LET base_response == a.recommended_ai_approach
        response_content ==
            IF IsExecutiveLevel(base_response) THEN base_response
            ELSE _build_executive_response(a, state)
    IN _apply_objective_driven_strategy(
           response_content, _analyze_objective_alignment(a, state))

\* The arguments _generate_contextual_response hands to AIResponse(...)
AIResponseArguments(a, state) ==
    LET strategic_response == StrategicResponse(a, state)
    IN [ content |-> strategic_response,
         emotion |-> a.emotion_analysis.primary_emotion,
         confidence_level |-> ConfidenceLevel(Len(strategic_response)),
         key_points |-> a.key_points.main_topics,
         business_impact |-> a.business_impact.impact_level,
         suggested_follow_up |-> _generate_strategic_follow_up(a, state) ]

\* _generate_contextual_response(user_message, llm_analysis, state): the
\* AIResponse object, or the ValidationError its constructor raises.
_generate_contextual_response(a, state) == AIResponse(AIResponseArguments(a, state))

\* ConversationMemoryService.get_conversation_context(simulation): the dict
\* it returns; a key the dict lacks reads as the default of context.get.
get_conversation_context(ins) ==
    IF ~ins.exists
      THEN [ summary |-> "No insights available",
             key_topics_discussed |-> <<>>, financial_data_mentioned |-> <<>>,
             strategic_concepts_covered |-> <<>>, stakeholders_involved |-> <<>>,
             proposed_actions |-> <<>>, concerns_raised |-> <<>>,
             conversation_phase |-> "opening",
             business_impact_level |-> None, urgency_level |-> None,
             emotional_tone_progression |-> <<>> ]
    ELSE [ summary |-> None,
           key_topics_discussed |-> ins.all_key_points,
           financial_data_mentioned |-> ins.all_financial_mentions,
           strategic_concepts_covered |-> ins.all_strategic_concepts,
           stakeholders_involved |-> ins.all_stakeholders,
           proposed_actions |-> ins.all_action_items,
           concerns_raised |-> ins.all_concerns,
           conversation_phase |->
               IF ins.conversation_phases # <<>>
                 THEN ins.conversation_phases[Len(ins.conversation_phases)]
               ELSE "opening",
           business_impact_level |-> ins.highest_impact_level,
           urgency_level |-> ins.peak_urgency_level,
           emotional_tone_progression |-> ins.dominant_emotions ]

\* The cue lists of can_ai_answer_about_insights, in the order it tries them
FinancialCues ==
    {"financiero", "financieras", "dinero", "presupuesto", "costo", "precio",
     "valor", "inversion", "serie a", "funding", "revenue", "arr", "$",
     "millones", "k", "ingresos", "cifras", "numeros", "metricas", "economico",
     "economicos", "monetario"}

KeyFindingsCues ==
    {"key findings", "puntos clave", "conclusiones", "resumen", "resumir"}

ConversationCues ==
    {"discutido", "hablado", "conversacion", "mencionado", "aspectos", "temas",
     "cubierto", "tratado"}

StrategicCues ==
    {"estrategia", "estrategico", "plan", "enfoque", "vision", "mision",
     "objetivos", "metas", "direccion"}

StakeholderCues ==
    {"equipo", "personas", "stakeholder", "cliente", "usuario", "inversor",
     "socio", "partner", "ceo", "team"}

ActionCues ==
    {"acciones", "pasos", "implementar", "hacer", "ejecutar", "realizar",
     "siguiente", "proximos", "plan de accion"}

ConcernCues ==
    {"problemas", "preocupaciones", "riesgos", "desafios", "dificultades",
     "obstaculos", "concerns", "issues"}

PastCues ==
    {"anterior", "anteriormente", "antes", "previo", "pasado", "discutimos",
     "hablamos", "mencionamos", "dijimos"}

\* The if/elif chain over question_lower, given the financial cue list
InsightType(question_lower, financial_cues) ==
    IF ContainsAny(question_lower, financial_cues) THEN "financial"
    ELSE IF ContainsAny(question_lower, KeyFindingsCues) THEN "key_points"
    ELSE IF ContainsAny(question_lower, ConversationCues) THEN "key_points"
    ELSE IF ContainsAny(question_lower, StrategicCues) THEN "strategic"
    ELSE IF ContainsAny(question_lower, StakeholderCues) THEN "stakeholders"
    ELSE IF ContainsAny(question_lower, ActionCues) THEN "actions"
    ELSE IF ContainsAny(question_lower, ConcernCues) THEN "concerns"
    ELSE IF ContainsAny(question_lower, PastCues) THEN "general"
    ELSE None

\* The empty dict {} returned as relevant_data when no cue matches
NoData == <<>>

\* ConversationMemoryService.can_ai_answer_about_insights(simulation,
\* user_question): the dict it returns
can_ai_answer_about_insights(ins, user_question) ==
    LET insight_type == InsightType(Lower(user_question), FinancialCues)
    IN IF insight_type # None
         THEN [ can_answer |-> TRUE,
                insight_type |-> insight_type,
                relevant_data |->
                    IF ins.exists
                      THEN [ relevant_key_points |-> Take(ins.all_key_points, 5),
                             relevant_financial_data |->
                                 Take(ins.all_financial_mentions, 5),
                             relevant_stakeholders |-> Take(ins.all_stakeholders, 5),
                             relevant_actions |-> Take(ins.all_action_items, 5),
                             relevant_concerns |-> Take(ins.all_concerns, 5),
                             context_summary |-> ins.conversation_summary ]
                    \* except: simulation.insights does not exist
                    ELSE [ relevant_key_points |-> <<>>,
                           relevant_financial_data |-> <<>>,
                           relevant_stakeholders |-> <<>>,
                           relevant_actions |-> <<>>,
                           relevant_concerns |-> <<>>,
                           context_summary |-> "No insights available" ],
                suggested_response_approach |->
                    "Referirse a insights previos sobre " \o insight_type ]
       ELSE [ can_answer |-> FALSE, insight_type |-> None,
              relevant_data |-> NoData,
              suggested_response_approach |->
                  "Respuesta normal sin referencia a insights" ]

\* s.split(): the maximal runs of s without a blank
Tokens(s) ==
    { SubSeq(s, i, j) :
        <<i, j>> \in { p \in (1..Len(s)) \X (1..Len(s)) :
                        /\ p[1] <= p[2]
                        /\ \A k \in p[1]..p[2] : SubSeq(s, k, k) # " "
                        /\ (p[1] = 1 \/ SubSeq(s, p[1] - 1, p[1] - 1) = " ")
                        /\ (p[2] = Len(s) \/ SubSeq(s, p[2] + 1, p[2] + 1) = " ") } }

\* The keyword lists of semantic_search_insights.  "CEO" is compared with
\* the lower-cased query as it is written.
financial_keywords ==
    {"financiero", "dinero", "presupuesto", "inversion", "serie", "usuarios",
     "crecimiento"}

strategic_keywords == {"estrategia", "plan", "estrategico", "expansion", "roadmap"}

stakeholder_keywords == {"equipo", "CEO", "personas", "stakeholder", "google"}

summary_keywords ==
    {"key findings", "resumen", "resumir", "conclusiones", "puntos clave",
     "aspectos", "temas"}

\* ConversationMemoryService.semantic_search_insights(simulation, query):
\* the dict it returns.  Where results[...] was assigned a list of the
\* insights object, the general search appends to that very list; when it is
\* the list the loop runs over, every match adds an item for the loop to
\* visit and the loop ends only when memory runs out.
semantic_search_insights(ins, query) ==
    LET query_lower == Lower(query)
        words == Tokens(query_lower)
        Matches(item) == \E word \in words : Contains(Lower(item), word)
        summary == ContainsAny(query_lower, summary_keywords)
        financial == ContainsAny(query_lower, financial_keywords)
        strategic == ContainsAny(query_lower, strategic_keywords)
        stakeholder == ContainsAny(query_lower, stakeholder_keywords)
        key_points ==
            IF summary THEN ins.all_key_points
            ELSE IF strategic THEN ins.all_strategic_concepts ELSE <<>>
        financial_data ==
            IF summary \/ financial THEN ins.all_financial_mentions ELSE <<>>
        stakeholders ==
            IF summary \/ stakeholder THEN ins.all_stakeholders ELSE <<>>
        endless ==
            \/ summary /\ SelectSeq(ins.all_key_points, Matches) # <<>>
            \/ (summary \/ financial)
                  /\ SelectSeq(ins.all_financial_mentions, Matches) # <<>>
            \/ (summary \/ stakeholder)
                  /\ SelectSeq(ins.all_stakeholders, Matches) # <<>>
    IN IF ~ins.exists
         THEN Ok([ relevant_key_points |-> <<>>, relevant_financial_data |-> <<>>,
                   relevant_stakeholders |-> <<>>, relevant_actions |-> <<>>,
                   relevant_concerns |-> <<>>,
                   context_summary |-> "No insights available for search" ])
       ELSE IF endless THEN Raise("MemoryError")
       ELSE Ok([ relevant_key_points |->
                     Dedup(key_points \o SelectSeq(ins.all_key_points, Matches)),
                 relevant_financial_data |->
                     Dedup(financial_data
                           \o SelectSeq(ins.all_financial_mentions, Matches)),
                 relevant_stakeholders |->
                     Dedup(stakeholders \o SelectSeq(ins.all_stakeholders, Matches)),
                 relevant_actions |-> IF summary THEN ins.all_action_items ELSE <<>>,
                 relevant_concerns |-> IF summary THEN ins.all_concerns ELSE <<>>,
                 context_summary |-> ins.conversation_summary ])

\* _enhance_with_conversation_context(response, context, llm_analysis)
_enhance_with_conversation_context(response, context, a) ==
    LET previous ==
            IF context.financial_data_mentioned # <<>>
               /\ a.key_points.financial_mentions # <<>>
              THEN " Considerando que anteriormente discutimos "
                   \o Join(Take(context.financial_data_mentioned, 2), ", ") \o ", "
            ELSE ""
        phase ==
            IF context.conversation_phase = "negotiation"
              THEN " Estamos en una fase critica de la negociacion."
            ELSE IF context.conversation_phase = "closing"
              THEN " Nos acercamos a las decisiones finales."
            ELSE ""
        concerns ==
            IF Len(context.concerns_raised) > 2
              THEN " Veo que hemos identificado varias preocupaciones importantes que debemos resolver."
            ELSE ""
    IN [ response EXCEPT !.content = @ \o previous \o phase \o concerns ]

\* emotion_mapping of _enhance_response_with_llm_analysis
emotion_mapping(e) ==
    CASE e = "positive" -> "encouraging"
      [] e = "negative" -> "concerned"
      [] e = "frustrated" -> "concerned"
      [] e = "confident" -> "neutral"
      [] e = "hesitant" -> "encouraging"
      [] e = "aggressive" -> "skeptical"
      [] e = "collaborative" -> "encouraging"
      [] OTHER -> None

\* _enhance_response_with_llm_analysis(base_response, llm_analysis)
_enhance_response_with_llm_analysis(base_response, a) ==
    LET urgent ==
            IF a.business_impact.urgency_level = "immediate"
              THEN "Entiendo la urgencia de la situacion. " ELSE ""
        financial ==
            IF a.key_points.financial_mentions # <<>>
              THEN " Respecto a los aspectos financieros que mencionas ("
                   \o Join(a.key_points.financial_mentions, ", ")
                   \o "), necesito mas detalles."
            ELSE ""
        concerns ==
            IF a.key_points.concerns_raised # <<>>
              THEN " Veo que tienes algunas preocupaciones validas que debemos abordar."
            ELSE ""
        llm_emotion == a.emotion_analysis.primary_emotion
    IN [ base_response EXCEPT
           !.content = urgent \o @ \o financial \o concerns,
           !.emotion = IF emotion_mapping(llm_emotion) # None
                         THEN emotion_mapping(llm_emotion) ELSE @ ]

\* final_result of process_message, from the enhanced response and the analysis
final_result(enhanced_response, a, conversation_context) ==
    [ response |-> enhanced_response.content,
      emotion |-> a.emotion_analysis.primary_emotion,
      confidence_level |-> enhanced_response.confidence_level,
      key_points |-> a.key_points.main_topics,
      business_impact |-> a.business_impact.impact_level,
      suggested_follow_up |-> enhanced_response.suggested_follow_up,
      objective_progress |->
          { a.objective_progress[i].objective_text :
              i \in { k \in 1..Len(a.objective_progress) :
                        a.objective_progress[k].is_fully_completed } },
      llm_analysis |-> a,
      conversation_context |-> conversation_context ]

\* process_message(state, simulation_obj): the result dictionary, or the
\* exception it raises; path names the components it called, in order.
process_message(provider, lines, state, ins, outcome) ==
    LET last_user_message == LastUserMessage(lines)
        conversation_context == get_conversation_context(ins)
        llm_analysis ==
            PyGetAttrs(
                PyCall(process_message_kwargs,
                       analyze_message_comprehensive_params,
                       analyze_message_comprehensive(
                           provider, last_user_message.words,
                           state.user_objectives, <<>>, outcome)),
                process_message_reads, analysis_attributes)
        contextual_response ==
            _generate_contextual_response(llm_analysis.value, state)
        enhanced_response ==
            _enhance_response_with_llm_analysis(
                _enhance_with_conversation_context(
                    contextual_response.value, conversation_context,
                    llm_analysis.value),
                llm_analysis.value)
        loaded == <<"get_conversation_context", "analyze_message_comprehensive">>
        generated == loaded \o <<"_generate_contextual_response">>
    IN IF IsEmptyStr(last_user_message)
         THEN Raise("ValueError: No user message found in conversation history")
       ELSE IF ~llm_analysis.ok
         THEN [ Raise("Exception: LLM analysis failed") EXCEPT !.path = loaded ]
       ELSE IF ~contextual_response.ok
         THEN [ Raise("Exception: Failed to generate contextual response")
                  EXCEPT !.path = generated ]
       ELSE [ Ok(final_result(enhanced_response, llm_analysis.value,
                              conversation_context))
                EXCEPT !.path = generated \o
                           <<"_enhance_with_conversation_context",
                             "_enhance_response_with_llm_analysis">> ]

(***************************************************************************)
(* The state machine                                                       *)
(***************************************************************************)
\* The objectives of the scenario the simulation runs
ScenarioObjectives == <<"Cerrar acuerdo">>

\* SimulationState(...) as send_message builds it from the scenario's role
ScenarioState ==
    [ ai_role |-> "CEO de la startup",
      ai_objectives |-> <<"Maximizar valoracion de la empresa">>,
      scenario_context |-> "Negociacion de Serie A de una fintech",
      user_objectives |-> ScenarioObjectives,
      ai_personality |-> [ analytical |-> 85, patience |-> 40,
                           aggression |-> 60, flexibility |-> 55 ] ]

\* ended_at and duration_minutes of a simulation that has not been ended
NotEnded == [ended_at |-> None, duration_minutes |-> None]

Init ==
    /\ llm \in {"openai", "structured_local"}
    /\ status = "active"
    /\ ended = NotEnded
    /\ messages = <<>>
    /\ insights = NoInsights
    /\ analyses = <<>>
    /\ last = [op |-> "init"]

\* SimulationViewSet.send_message, the whole handler.  raw is
\* request.data['content']; outcome is what the language capability answers
\* if it is asked during this call.  last.calls lists, in order, the
\* components the handler called.
SendMessage(raw, outcome, bound) ==
    LET content == Strip(raw)
        user_message == NewMessage("user", content, None)
        created == Append(messages, user_message)
        result == process_message(llm, StateMessages(created),
                                  ScenarioState, insights, outcome)
        stored == store_message_insights(created, insights, Len(created),
                                         result.value.llm_analysis)
        ai_message == NewMessage("ai", Text(FALSE, {}), result.value.emotion)
    IN /\ Len(messages) < bound
       /\ IF status # "active"
            THEN /\ last' = [ op |-> "send_message", raw |-> raw, http |-> 400,
                              error |-> "Simulation is not active",
                              calls |-> <<>> ]
                 /\ UNCHANGED <<messages, insights, analyses>>
          ELSE IF IsEmptyStr(content)
            THEN /\ last' = [ op |-> "send_message", raw |-> raw, http |-> 400,
                              error |-> "Message content is required",
                              calls |-> <<>> ]
                 /\ UNCHANGED <<messages, insights, analyses>>
          ELSE IF ~result.ok
            THEN /\ messages' = created
                 /\ last' = [ op |-> "send_message", raw |-> raw, http |-> 500,
                              error |-> result.error,
                              calls |-> <<"Message.objects.create">> \o result.path ]
                 /\ UNCHANGED <<insights, analyses>>
          ELSE /\ messages' = Append(stored.messages, ai_message)
               /\ insights' = stored.insights
               /\ analyses' = Append(analyses, result.value.llm_analysis)
               /\ last' = [ op |-> "send_message", raw |-> raw, http |-> 200,
                            error |-> "none",
                            calls |-> <<"Message.objects.create">> \o result.path
                                      \o <<"store_message_insights",
                                            "Message.objects.create">> ]
       /\ UNCHANGED <<llm, ended, status>>

\* The fields of the Simulation model, its primary key included
SimulationModelFields ==
    {"id", "user", "scenario", "custom_simulation", "status", "started_at",
     "ended_at", "duration_minutes"}

\* SimulationSerializer.Meta.fields and Meta.read_only_fields, and the
\* fields the serializer class declares itself
SerializerFields ==
    <<"id", "user", "scenario", "custom_simulation", "status", "started_at",
      "ended_at", "duration_minutes", "messages", "scenario_title",
      "custom_simulation_title", "title", "summary", "last_message_preview",
      "objectives_completed", "total_objectives", "final_score">>

SerializerReadOnlyFields ==
    {"id", "user", "started_at", "ended_at", "duration_minutes", "messages",
     "scenario_title", "custom_simulation_title", "title", "summary",
     "last_message_preview", "objectives_completed", "total_objectives",
     "final_score"}

SerializerDeclaredFields ==
    {"messages", "scenario_title", "custom_simulation_title"}

\* A serializer field built for any name, as for an attribute of the model
build_property_field(field_name) == Ok("property")

\* ModelSerializer.build_field for a name of Meta.fields that the class does
\* not declare: a model field, else ImproperlyConfigured (the Simulation
\* class has no attribute of the names that are not model fields).
build_field(field_name) ==
    IF field_name \in SimulationModelFields THEN Ok("model_field")
    ELSE Raise("ImproperlyConfigured")

\* ModelSerializer.get_fields of SimulationSerializer: every name of
\* Meta.fields is built, read-only or not; the value is the set of writable
\* fields.
get_fields ==
    IF \E i \in 1..Len(SerializerFields) :
          /\ SerializerFields[i] \notin SerializerDeclaredFields
          /\ ~build_field(SerializerFields[i]).ok
      THEN Raise("ImproperlyConfigured")
    ELSE Ok(Range(SerializerFields) \ SerializerReadOnlyFields)

STATUS_CHOICES == {"active", "completed", "abandoned"}

\* SimulationViewSet.end_simulation at the time now, in minutes since
\* started_at: the row is saved before the response is serialized.
EndSimulation(now) ==
    /\ IF status # "active"
         THEN /\ last' = [ op |-> "end_simulation", http |-> 400,
                           error |-> "Simulation is not active" ]
              /\ UNCHANGED <<status, ended>>
         ELSE /\ status' = "completed"
              /\ ended' = [ended_at |-> now, duration_minutes |-> now]
              /\ last' = IF get_fields.ok
                           THEN [ op |-> "end_simulation", http |-> 200,
                                  error |-> "none" ]
                         ELSE [ op |-> "end_simulation", http |-> 500,
                                error |-> get_fields.error ]
    /\ UNCHANGED <<llm, messages, insights, analyses>>

\* PUT or PATCH on a simulation, the update and partial_update that
\* SimulationViewSet inherits from ModelViewSet, with a status in the body:
\* the serializer validates before anything is saved.
UpdateSimulation(data_status) ==
    /\ IF ~get_fields.ok
         THEN /\ last' = [ op |-> "update", http |-> 500,
                           error |-> get_fields.error ]
              /\ UNCHANGED status
       ELSE IF "status" \in get_fields.value /\ data_status \notin STATUS_CHOICES
         THEN /\ last' = [ op |-> "update", http |-> 400,
                           error |-> "not a valid choice" ]
              /\ UNCHANGED status
       ELSE /\ status' = IF "status" \in get_fields.value
                           THEN data_status ELSE status
            /\ last' = [ op |-> "update", http |-> 200, error |-> "none" ]
    /\ UNCHANGED <<llm, ended, messages, insights, analyses>>

\* LLMAnalyzer.analyze_message_comprehensive called on its own, with the
\* arguments in the declared order (as test_analysis_quality calls it).
AnalyzeMessage ==
    /\ last.op = "call"
    /\ last' = [ last EXCEPT
                   !.op = "analyze",
                   !.result = analyze_message_comprehensive(
                                  llm, last.msg, last.user_objectives,
                                  last.end_conditions, last.outcome) ]
    /\ UNCHANGED <<llm, ended, status, messages, insights, analyses>>

\* ConversationMemoryService.store_message_insights called on the newest
\* message, a user message that holds no analysis yet, with the analysis the
\* analyzer returns for its text.
StoreMessageInsights(outcome) ==
    LET i == Len(messages)
        r == analyze_message_comprehensive(
                 llm, messages[i].content.words, ScenarioObjectives, <<>>, outcome)
        stored == store_message_insights(messages, insights, i, r.value)
    IN /\ i > 0
       /\ messages[i].sender = "user"
       /\ ~messages[i].llm_analysis.present
       /\ r.ok
       /\ messages' = stored.messages
       /\ insights' = stored.insights
       /\ analyses' = Append(analyses, r.value)
       /\ last' = [ op |-> "store_message_insights", analysis |-> r.value,
                    before |-> insights ]
       /\ UNCHANGED <<llm, ended, status>>

\* StructuredSimulationAgent._generate_contextual_response called on its own
\* with an analysis object and a session state; last.draft keeps the
\* arguments it hands to the AIResponse constructor.
GenerateContextualResponse ==
    /\ last.op = "synthesize_call"
    /\ last' = [ last EXCEPT
                   !.op = "synthesize",
                   !.draft = AIResponseArguments(last.analysis, last.state),
                   !.result = _generate_contextual_response(last.analysis, last.state) ]
    /\ UNCHANGED <<llm, ended, status, messages, insights, analyses>>

\* The rest of process_message once an AIResponse object exists (lines
\* 432-482): both enrichments, then the result dictionary.
EnhanceAndReturn ==
    LET conversation_context == get_conversation_context(insights)
        enhanced_response ==
            _enhance_response_with_llm_analysis(
                _enhance_with_conversation_context(
                    last.base, conversation_context, last.analysis),
                last.analysis)
    IN /\ last.op = "enhance_call"
       /\ last' = [ last EXCEPT
                      !.op = "enhance",
                      !.draft = enhanced_response,
                      !.result = Ok(final_result(enhanced_response, last.analysis,
                                                 conversation_context)) ]
       /\ UNCHANGED <<llm, ended, status, messages, insights, analyses>>

\* ConversationMemoryService.can_ai_answer_about_insights called with the
\* session's insights and a question
CanAIAnswerAboutInsights ==
    /\ last.op = "ask_call"
    /\ last' = [ last EXCEPT
                   !.op = "ask",
                   !.result = can_ai_answer_about_insights(insights, last.question) ]
    /\ UNCHANGED <<llm, ended, status, messages, insights, analyses>>

\* ConversationMemoryService.semantic_search_insights called with the
\* session's insights and a query
SemanticSearchInsights ==
    /\ last.op = "search_call"
    /\ last' = [ last EXCEPT
                   !.op = "search",
                   !.result = semantic_search_insights(insights, last.query) ]
    /\ UNCHANGED <<llm, ended, status, messages, insights, analyses>>

\* How many times in a row the modulation is applied to one response
MaxApplications == 2

\* personality.get(key, default)
PersonalityGet(personality, key, default) ==
    IF key \in DOMAIN personality THEN personality[key] ELSE default

\* The position of the first occurrence of old in s, 0 if there is none
Find(s, old) ==
    LET at == { i \in 1..(Len(s) - Len(old) + 1) :
                  SubSeq(s, i, i + Len(old) - 1) = old }
    IN IF at = {} THEN 0 ELSE CHOOSE i \in at : \A j \in at : i <= j

\* str.replace(old, new): every occurrence, left to right
RECURSIVE Replace(_, _, _)
Replace(s, old, new) ==
    LET i == Find(s, old)
    IN IF i = 0 THEN s
       ELSE SubSeq(s, 1, i - 1) \o new
              \o Replace(SubSeq(s, i + Len(old), Len(s)), old, new)

\* The modulation without the ceiling on the confidence
enhance_uncapped(response, personality) ==
    LET patience    == PersonalityGet(personality, "patience", 50)
        flexibility == PersonalityGet(personality, "flexibility", 50)
    IN [ response EXCEPT
           !.confidence_level = @ + (IF patience < 30 THEN 1 ELSE 0)
                                  + (IF flexibility < 30 THEN 1 ELSE 0) ]

\* StructuredAIService._enhance_with_personality(response, personality)
_enhance_with_personality(response, personality) ==
    LET analytical  == PersonalityGet(personality, "analytical", 50)
        patience    == PersonalityGet(personality, "patience", 50)
        aggression  == PersonalityGet(personality, "aggression", 30)
        flexibility == PersonalityGet(personality, "flexibility", 50)
        asks == /\ analytical > 70
                /\ ~Contains(Lower(response.content), "datos")
                /\ ~Contains(Lower(response.content), "metricas")
        r1 == IF asks
                THEN [ response EXCEPT
                         !.content = @ \o " Necesito ver datos especificos y metricas concretas para evaluar esta propuesta adecuadamente.",
                         !.key_points = Append(@, "datos especificos requeridos") ]
              ELSE response
        r2 == IF patience < 30
                THEN [ r1 EXCEPT
                         !.content = @ \o " Necesito una respuesta rapida y decisiva.",
                         !.confidence_level = Min(10, @ + 1) ]
              ELSE r1
        r3 == IF aggression > 70
                THEN [ r2 EXCEPT
                         !.content =
                             Replace(Replace(@, "Interesante", "Francamente"),
                                     "Me gusta",
                                     "No estoy completamente convencido de"),
                         !.emotion = IF @ = "neutral" THEN "skeptical" ELSE @ ]
              ELSE r2
    IN IF flexibility < 30
         THEN [ r3 EXCEPT
                  !.content = @ \o " Mi posicion en este tema es firme y basada en experiencia previa.",
                  !.confidence_level = Min(10, @ + 1) ]
       ELSE r3

\* One application of the modulation to the response at hand
EnhanceWithPersonality ==
    /\ last.op \in {"personality_call", "_enhance_with_personality"}
    /\ last.applied < MaxApplications
    /\ last' = [ op |-> "_enhance_with_personality",
                 before |-> last.response,
                 response |-> _enhance_with_personality(last.response,
                                                        last.personality),
                 personality |-> last.personality,
                 applied |-> last.applied + 1 ]
    /\ UNCHANGED <<llm, ended, status, messages, insights, analyses>>

\* LiveMetricsService._calculate_overall_business_impact(user_messages),
\* user_messages being every message the user sent
_calculate_overall_business_impact(user_messages) ==
    LET impact_levels ==
            Flatten([ i \in 1..Len(user_messages) |->
                        SeqIf(Truthy(user_messages[i].business_impact_level),
                              user_messages[i].business_impact_level) ])
    IN IF impact_levels = <<>> THEN "medium"
       ELSE IF "critical" \in Range(impact_levels) THEN "critical"
       ELSE IF "high" \in Range(impact_levels) THEN "high"
       ELSE IF "medium" \in Range(impact_levels) THEN "medium"
       ELSE "low"

\* store_message_insights with its own try/except: when message.save()
\* raises (saved = FALSE: the database refuses the row, for instance an
\* item longer than its column) nothing is written, the error is printed
\* and the call returns normally.
store_message_insights_caught(msgs, ins, i, a, saved) ==
    IF saved
      THEN [ raised |-> FALSE ] @@ store_message_insights(msgs, ins, i, a)
    ELSE [ raised |-> FALSE, messages |-> msgs, insights |-> ins ]

\* The manual extraction of send_message's except branch: re.findall of the
\* amounts in the content, the strategic words in it, and the impact level
\* 'high' if an amount was found, else 'medium'.
ManualExtraction(m) ==
    LET financial_data ==
            SetToSeq({ w \in m.content.words : w \in {"$5M", "$25M", "20%"} })
        strategic_data ==
            Flatten(<< SeqIf(Has(m.content.words, "plan"), "plan"),
                       SeqIf(Has(m.content.words, "estrategia"), "estrategia"),
                       SeqIf(Has(m.content.words, "expansion"), "expansion"),
                       SeqIf(Has(m.content.words, "crecimiento"), "crecimiento") >>)
    IN [ m EXCEPT
           !.financial_mentions = Take(financial_data, 5),
           !.strategic_concepts = Take(strategic_data, 5),
           !.business_impact_level =
               IF financial_data # <<>> THEN "high" ELSE "medium" ]

\* send_message, lines 394-430: the analysis of the turn is stored on the
\* user message; the manual extraction runs if storing raises.
StoreTurnAnalysis(msgs, ins, i, a, saved) ==
    LET stored == store_message_insights_caught(msgs, ins, i, a, saved)
    IN IF stored.raised
         THEN [ messages |-> [msgs EXCEPT ![i] = ManualExtraction(@)],
                insights |-> ins ]
       ELSE [ messages |-> stored.messages, insights |-> stored.insights ]

\* The storing step of a turn, for the newest user message and the analysis
\* the analyzer returns for it
StoreTurnInsights(outcome, saved) ==
    LET i == Len(messages)
        r == analyze_message_comprehensive(
                 llm, messages[i].content.words, ScenarioObjectives, <<>>, outcome)
        stored == StoreTurnAnalysis(messages, insights, i, r.value, saved)
    IN /\ last.op = "send_message"
       /\ i > 0
       /\ messages[i].sender = "user"
       /\ ~messages[i].llm_analysis.present
       /\ r.ok
       /\ messages' = stored.messages
       /\ insights' = stored.insights
       /\ analyses' = Append(analyses, r.value)
       /\ last' = [ op |-> "store_turn_insights", analysis |-> r.value,
                    saved |-> saved ]
       /\ UNCHANGED <<llm, ended, status>>

(***************************************************************************)
(* Several sessions and several requests in flight.  Here messages is the  *)
(* Message table (rows in creation order, each with its simulation),       *)
(* insights and status map a simulation to its ConversationInsights row    *)
(* and its status, analyses maps it to the texts of its turns in the order *)
(* the turns began, and last maps a request to where it stands and to the  *)
(* objects it holds in memory.                                             *)
(***************************************************************************)
Sessions == {"s1", "s2"}

Requests == {"r1", "r2"}

\* A queryset that is not restricted to the simulation
all_messages(table, simulation) == [ i \in 1..Len(table) |-> table[i].message ]

\* simulation.messages: the rows of the table that belong to the simulation
simulation_messages(table, simulation) ==
    LET rows == SelectSeq(table, LAMBDA row : row.simulation = simulation)
    IN [ i \in 1..Len(rows) |-> rows[i].message ]

\* A request that is not running
Idle ==
    [ pc |-> "idle", simulation |-> None, pk |-> 0, ins |-> NoInsights,
      user_messages |-> <<>> ]

InFlight(simulation) ==
    \E q \in Requests : last[q].pc # "idle" /\ last[q].simulation = simulation

\* send_message up to Message.objects.create(sender='user').  serialized
\* says whether the caller keeps one turn per session in flight.
CreateUserMessage(r, simulation, raw, serialized, bound) ==
    LET content == Strip(raw)
    IN /\ last[r].pc = "idle"
       /\ Len(messages) < bound
       /\ status[simulation] = "active"
       /\ ~IsEmptyStr(content)
       /\ serialized => ~InFlight(simulation)
       /\ messages' = Append(messages,
                             [ simulation |-> simulation,
                               message |-> NewMessage("user", content, None) ])
       /\ analyses' = [analyses EXCEPT ![simulation] = Append(@, content.words)]
       /\ last' = [last EXCEPT ![r] =
                      [Idle EXCEPT !.pc = "created", !.simulation = simulation,
                                   !.pk = Len(messages) + 1]]
       /\ UNCHANGED <<llm, ended, status, insights>>

\* store_message_insights up to message.save(), with the analysis the
\* analyzer returns for the text of the message
SaveMessageAnalysis(r) ==
    LET pk == last[r].pk
        analysis == analyze_message_comprehensive(
                        llm, messages[pk].message.content.words,
                        ScenarioObjectives, <<>>,
                        [kind |-> "unreachable", fields |-> NoValue])
    IN /\ last[r].pc = "created"
       /\ analysis.ok
       /\ messages' = [messages EXCEPT
                          ![pk].message = StoredMessage(@, analysis.value)]
       /\ last' = [last EXCEPT ![r].pc = "saved"]
       /\ UNCHANGED <<llm, ended, status, insights, analyses>>

\* update_conversation_insights: ConversationInsights.objects.get_or_create
GetOrCreateInsights(r) ==
    LET simulation == last[r].simulation
        row == IF insights[simulation].exists THEN insights[simulation]
               ELSE DefaultInsights
    IN /\ last[r].pc = "saved"
       /\ insights' = [insights EXCEPT ![simulation] = row]
       /\ last' = [last EXCEPT ![r].pc = "got", ![r].ins = row]
       /\ UNCHANGED <<llm, ended, status, messages, analyses>>

\* update_conversation_insights: the query for the user messages runs
ReadUserMessages(r) ==
    /\ last[r].pc = "got"
    /\ last' = [last EXCEPT
                   ![r].pc = "read",
                   ![r].user_messages =
                       simulation_messages(messages, last[r].simulation)]
    /\ UNCHANGED <<llm, ended, status, messages, insights, analyses>>

\* update_conversation_insights: the lists are computed from the messages
\* read and insights.save() writes the row
SaveInsights(r) ==
    /\ last[r].pc = "read"
    /\ insights' = [insights EXCEPT
                       ![last[r].simulation] =
                           update_conversation_insights(last[r].ins,
                                                        last[r].user_messages)]
    /\ last' = [last EXCEPT ![r] = Idle]
    /\ UNCHANGED <<llm, ended, status, messages, analyses>>

(***************************************************************************)
(* Specifications                                                          *)
(***************************************************************************)
\* The request texts of the turn handlers
TurnTexts ==
    { Text(FALSE, {}), Text(TRUE, {}), Text(FALSE, {"hola"}),
      Text(TRUE, {"acepto"}), Text(FALSE, {"preocupa"}),
      Text(FALSE, {"urgente", "$5M"}) }

TurnOutcomes ==
    { [kind |-> "unreachable", fields |-> NoValue],
      [kind |-> "json",
       fields |-> LLMFields("hesitant", 100, "low", "low", 100, TRUE, 100)] }

\* Times, in minutes since started_at, at which a simulation is ended
EndTimes == {12, 45}

\* The session as its request handlers drive it
Next ==
    \/ \E raw \in TurnTexts, outcome \in TurnOutcomes :
          SendMessage(raw, outcome, MaxTurnMsgs)
    \/ \E now \in EndTimes : EndSimulation(now)

Spec == Init /\ [][Next]_vars

\* The session driven by every route of the simulations router
UpdateStatuses == {"active", "completed", "abandoned", "paused"}

NextLifecycle ==
    \/ \E raw \in TurnTexts, outcome \in TurnOutcomes :
          SendMessage(raw, outcome, MaxTurnMsgs)
    \/ \E now \in EndTimes : EndSimulation(now)
    \/ \E data_status \in UpdateStatuses : UpdateSimulation(data_status)

SpecLifecycle == Init /\ [][NextLifecycle]_vars

\* The analyzer as a function of its inputs
AnalyzerWords == {"acepto", "preocupa", "urgente", "completado", "$5M"}

ObjectiveLists == { <<>>, <<"Cerrar acuerdo">>, <<"o1", "o2", "o3", "o4">> }

EndConditionLists == { <<>>, <<"acuerdo final", "c2", "c3">> }

InitAnalyzer ==
    /\ llm \in {"openai", "structured_local"}
    /\ status = "active"
    /\ ended = NotEnded
    /\ messages = <<>>
    /\ insights = NoInsights
    /\ analyses = <<>>
    /\ last \in [ op : {"call"}, msg : SUBSET AnalyzerWords,
                  user_objectives : ObjectiveLists,
                  end_conditions : EndConditionLists,
                  outcome : LLMOutcomes, result : {NoValue} ]

NextAnalyzer == AnalyzeMessage

SpecAnalyzer == InitAnalyzer /\ [][NextAnalyzer]_vars

\* The conversation memory, fed with analysed user messages
MemTexts ==
    { Text(FALSE, {"hola"}), Text(FALSE, {"mi plan"}),
      Text(FALSE, {"mi plan", "equipo"}), Text(FALSE, {"urgente", "$5M"}) }

MemOutcomes == TurnOutcomes

NextMemory ==
    \/ \E raw \in MemTexts, outcome \in MemOutcomes :
          SendMessage(raw, outcome, MaxMemTurns)
    \/ \E outcome \in MemOutcomes : StoreMessageInsights(outcome)

SpecMemory == Init /\ [][NextMemory]_vars

\* Long conversations, for the phase history
PhaseTexts == { Text(FALSE, {"hola"}) }

PhaseOutcomes == { [kind |-> "unreachable", fields |-> NoValue] }

InitPhase == Init /\ llm = "structured_local"

NextPhase ==
    \/ \E raw \in PhaseTexts, outcome \in PhaseOutcomes :
          SendMessage(raw, outcome, MaxPhaseTurns)
    \/ \E outcome \in PhaseOutcomes : StoreMessageInsights(outcome)

SpecPhase == InitPhase /\ [][NextPhase]_vars

\* The synthesizer as a function of an analysis and a session state
SynthKeyPoints ==
    { [ main_topics |-> <<>>, financial_mentions |-> <<>>,
        strategic_concepts |-> <<>>, stakeholders_mentioned |-> <<>>,
        action_items |-> <<>>, concerns_raised |-> <<>> ],
      [ main_topics |-> <<"valoracion">>, financial_mentions |-> <<"$25M">>,
        strategic_concepts |-> <<"crecimiento">>, stakeholders_mentioned |-> <<>>,
        action_items |-> <<>>, concerns_raised |-> <<"dilucion">> ],
      [ main_topics |-> <<"valoracion", "equipo">>,
        financial_mentions |-> <<"$5M", "20%", "Serie A">>,
        strategic_concepts |-> <<"crecimiento">>,
        stakeholders_mentioned |-> <<"junta">>,
        action_items |-> <<"term sheet", "due diligence", "cierre">>,
        concerns_raised |-> <<>> ] }

SynthApproaches ==
    { "",
      "Mantener conversacion productiva y explorar detalles",
      "Presentar al board un plan de growth con metrics claras de revenue y pipeline" }

SynthAnalyses ==
    { [ LLMFields(e, 100, u.imp, u.urg, 100, TRUE, 100) EXCEPT
          !.key_points = kp, !.recommended_ai_approach = approach ] :
        e \in EmotionSet,
        u \in { [imp |-> "low", urg |-> "low"], [imp |-> "critical", urg |-> "immediate"] },
        kp \in SynthKeyPoints, approach \in SynthApproaches }

SynthStates ==
    { ScenarioState,
      [ ai_role |-> "VP de Operaciones",
        ai_objectives |-> <<"Estabilizar la operacion">>,
        scenario_context |-> "Crisis de liquidez en la empresa",
        user_objectives |-> ScenarioObjectives,
        ai_personality |-> [ analytical |-> 90, patience |-> 25,
                             aggression |-> 70, flexibility |-> 45 ] ],
      [ ai_role |-> "Proveedor", ai_objectives |-> <<>>,
        scenario_context |-> "Renovacion de contrato",
        user_objectives |-> <<>>,
        ai_personality |-> [ analytical |-> 50, patience |-> 50,
                             aggression |-> 30, flexibility |-> 50 ] ] }

\* AIResponse objects the enrichment steps may be handed
SynthResponses ==
    { [ content |-> "Aprecio la claridad de su propuesta.", emotion |-> e,
        confidence_level |-> 5, key_points |-> <<>>, business_impact |-> "medium",
        suggested_follow_up |-> "?Como mediremos el exito de esta iniciativa?" ] :
        e \in {"neutral", "positive"} }

InitSynth ==
    /\ llm = "structured_local"
    /\ status = "active"
    /\ ended = NotEnded
    /\ messages = <<>>
    /\ insights = NoInsights
    /\ analyses = <<>>
    /\ last \in [ op : {"synthesize_call", "enhance_call"},
                  analysis : SynthAnalyses, state : SynthStates,
                  base : SynthResponses, draft : {NoValue}, result : {NoValue} ]

NextSynth == GenerateContextualResponse \/ EnhanceAndReturn

SpecSynth == InitSynth /\ [][NextSynth]_vars

\* Questions about what the memory holds
RecallQuestions ==
    { "?Cuales son los puntos clave?", "Dame los key findings",
      "Un resumen, por favor", "?Que temas hemos tratado?",
      "?Cual es el presupuesto?", "Resumen del presupuesto",
      "?Cual es la estrategia?", "?Quien es el inversor?", "?Que pasos siguen?",
      "?Que riesgos hay?", "?Que dijimos antes?", "Hola",
      "?Que plan de accion hay?" }

\* Insights records as update_conversation_insights leaves them: lists
\* without duplicates
RecallInsights ==
    { NoInsights } \cup
    { [ DefaultInsights EXCEPT
          !.all_key_points = kp, !.all_financial_mentions = fin,
          !.all_concerns = con ] :
        kp \in { <<>>, <<"valoracion">>,
                 <<"valoracion", "equipo", "crecimiento", "producto",
                   "mercado", "inversion">> },
        fin \in { <<>>, <<"$5M">> },
        con \in { <<>>, <<"dilucion">> } }

InitRecall ==
    /\ llm = "structured_local"
    /\ status = "active"
    /\ ended = NotEnded
    /\ messages = <<>>
    /\ insights \in RecallInsights
    /\ analyses = <<>>
    /\ last \in [ op : {"ask_call"}, question : RecallQuestions,
                  result : {NoValue} ]

NextRecall == CanAIAnswerAboutInsights

SpecRecall == InitRecall /\ [][NextRecall]_vars

\* Searching the memory
SearchQueries ==
    { "hola", "valoracion", "La VALORACION", "un resumen", "resumen de valoracion",
      "nuestra estrategia", "el presupuesto", "el equipo", "junta directiva",
      "dilucion", "term sheet", "$5M" }

SearchInsights ==
    { NoInsights, DefaultInsights } \cup
    { [ DefaultInsights EXCEPT
          !.all_key_points = kp,
          !.all_financial_mentions = fin,
          !.all_strategic_concepts = <<"crecimiento">>,
          !.all_stakeholders = stk,
          !.all_action_items = <<"enviar term sheet">>,
          !.all_concerns = <<"dilucion">> ] :
        kp \in { <<>>, <<"valoracion", "equipo">> },
        fin \in { <<>>, <<"$5M", "20%">> },
        stk \in { <<>>, <<"junta">> } }

InitSearch ==
    /\ llm = "structured_local"
    /\ status = "active"
    /\ ended = NotEnded
    /\ messages = <<>>
    /\ insights \in SearchInsights
    /\ analyses = <<>>
    /\ last \in [ op : {"search_call"}, query : SearchQueries, result : {NoValue} ]

NextSearch == SemanticSearchInsights

SpecSearch == InitSearch /\ [][NextSearch]_vars

\* The personality modulation as a function of its inputs
PersonalityValues ==
    [ analytical |-> {70, 71}, patience |-> {29, 30},
      aggression |-> {70, 71}, flexibility |-> {29, 30} ]

Personalities ==
    UNION { { f \in [K -> 29..71] : \A k \in K : f[k] \in PersonalityValues[k] } :
            K \in SUBSET {"analytical", "patience", "aggression", "flexibility"} }

PersonalityContents ==
    { "Interesante propuesta. Me gusta el equipo.",
      "Revisemos los DATOS del trimestre.",
      "Hablemos de las Metricas de retencion." }

PersonalityResponses ==
    [ content : PersonalityContents, emotion : {"neutral", "concerned"},
      confidence_level : {1, 9, 10}, key_points : {<<>>} ]

InitPersonality ==
    /\ llm = "structured_local"
    /\ status = "active"
    /\ ended = NotEnded
    /\ messages = <<>>
    /\ insights = [exists |-> FALSE]
    /\ analyses = <<>>
    /\ \E response \in PersonalityResponses, personality \in Personalities :
          last = [ op |-> "personality_call", response |-> response,
                   personality |-> personality, applied |-> 0 ]

NextPersonality == EnhanceWithPersonality

SpecPersonality == InitPersonality /\ [][NextPersonality]_vars

\* Turns whose analysis is stored by the handler's storing step
NextSeverity ==
    \/ \E raw \in MemTexts, outcome \in MemOutcomes :
          SendMessage(raw, outcome, MaxMemTurns)
    \/ \E outcome \in MemOutcomes, saved \in BOOLEAN :
          StoreTurnInsights(outcome, saved)

SpecSeverity == Init /\ [][NextSeverity]_vars

\* Turns of several sessions, one turn per session at a time
MaxTableRows == 3

SessionTexts == { Text(FALSE, {"mi plan"}), Text(TRUE, {"urgente", "$5M"}) }

InitSessions ==
    /\ llm = "structured_local"
    /\ status = [simulation \in Sessions |-> "active"]
    /\ ended = NotEnded
    /\ messages = <<>>
    /\ insights = [simulation \in Sessions |-> NoInsights]
    /\ analyses = [simulation \in Sessions |-> <<>>]
    /\ last = [r \in Requests |-> Idle]

NextSessions ==
    \E r \in Requests :
        \/ \E simulation \in Sessions, raw \in SessionTexts :
              CreateUserMessage(r, simulation, raw, TRUE, MaxTableRows)
        \/ SaveMessageAnalysis(r)
        \/ GetOrCreateInsights(r)
        \/ ReadUserMessages(r)
        \/ SaveInsights(r)

SpecSessions == InitSessions /\ [][NextSessions]_vars

\* Requests as send_message accepts them: nothing keeps two turns of one
\* session apart
NextConcurrent ==
    \E r \in Requests :
        \/ \E simulation \in Sessions, raw \in SessionTexts :
              CreateUserMessage(r, simulation, raw, FALSE, MaxTableRows)
        \/ SaveMessageAnalysis(r)
        \/ GetOrCreateInsights(r)
        \/ ReadUserMessages(r)
        \/ SaveInsights(r)

SpecConcurrent == InitSessions /\ [][NextConcurrent]_vars

(***************************************************************************)
(* Properties of a turn                                                    *)
(***************************************************************************)
\* C1: a turn with a non-empty message, sent to an active session, never
\* fails: process_message does not raise and send_message answers with a
\* response, whatever the generative capability does and whether or not it
\* is configured.
C1_TurnAlwaysAnswered ==
    (last.op = "send_message" /\ status = "active"
                              /\ ~IsEmptyStr(Strip(last.raw)))
        => last.http = 200 /\ last.error = "none"

\* C10: a turn whose message is empty after trimming (it holds no word: it
\* is "" or blank) is refused and nothing else happens: no message is
\* stored, no analysis is stored, the insights stay as they are; an active
\* session answers it with the empty-message error (a session that is no
\* longer active refuses every turn before it looks at the message).
C10_EmptyMessageRefused ==
    [][ (last'.op = "send_message" /\ last'.raw.words = {})
          => /\ last'.http = 400
             /\ status = "active" => last'.error = "Message content is required"
             /\ UNCHANGED <<status, messages, insights, analyses>> ]_vars

\* A blank message was refused in a session that already holds a message.
C10_Witness ==
    /\ last.op = "send_message"
    /\ last.raw = Text(TRUE, {})
    /\ last.http = 400
    /\ last.error = "Message content is required"
    /\ Len(messages) > 0

(***************************************************************************)
(* Properties of the analyzer                                              *)
(***************************************************************************)
\* The generative attempt of a call fails: no answer, or an answer the
\* parser rejects.
GenerativeFails(outcome) ==
    ~LLMInvoke(outcome).ok \/ ~ParserParse(outcome).ok

\* C2: the deterministic strategy never raises, whatever the message, and
\* always returns a populated analysis.
C2_FallbackTotal ==
    last.op = "analyze" =>
        LET r == _analyze_with_structured_logic(
                     last.msg, last.user_objectives, last.end_conditions)
        IN r.ok /\ r.value # NoValue

\* C3: with the generative capability configured the analyzer tries it
\* first, and whenever that attempt fails the call returns the result of
\* the deterministic strategy: the caller gets an analysis, not an error.
C3_GenerativeFirstThenFallback ==
    (last.op = "analyze" /\ llm = "openai") =>
        /\ Head(last.result.path) = "generative"
        /\ GenerativeFails(last.outcome) =>
              /\ last.result.path = <<"generative", "deterministic">>
              /\ last.result.ok
              /\ last.result.value =
                     StructuredLogicFields(last.msg, last.user_objectives,
                                           last.end_conditions)

\* C4: for every message the detected emotion is one of the eight declared
\* emotions and the assessed levels are members of their level sets, and
\* every analysis either strategy returns has its enum fields in those sets.
C4_EnumFieldsDeclared ==
    last.op = "analyze" =>
        /\ _detect_emotion_intelligently(last.msg) \in
               {"positive", "negative", "neutral", "frustrated", "confident",
                "hesitant", "aggressive", "collaborative"}
        /\ _assess_impact_level_intelligently(last.msg) \in
               {"low", "medium", "high", "critical"}
        /\ _assess_financial_impact_intelligently(last.msg) \in
               {"none", "low", "medium", "high", "critical"}
        /\ _assess_urgency_intelligently(last.msg) \in
               {"low", "medium", "high", "immediate"}
        /\ last.result.ok =>
              /\ last.result.value.emotion_analysis.primary_emotion \in
                     {"positive", "negative", "neutral", "frustrated", "confident",
                      "hesitant", "aggressive", "collaborative"}
              /\ last.result.value.business_impact.impact_level \in
                     {"low", "medium", "high", "critical"}
              /\ last.result.value.business_impact.urgency_level \in
                     {"low", "medium", "high", "immediate"}

\* C5: every analysis either strategy returns has its emotion confidence in
\* [0,1], every completion percentage in [0,100] and every end-condition
\* likelihood in [0,1] (scores are held in hundredths).
C5_NumericFieldsInRange ==
    (last.op = "analyze" /\ last.result.ok) =>
        LET a == last.result.value
        IN /\ a.emotion_analysis.confidence_score \in 0..100
           /\ \A i \in 1..Len(a.objective_progress) :
                 /\ a.objective_progress[i].completion_percentage \in 0..100
                 /\ a.objective_progress[i].confidence_in_assessment \in 0..100
           /\ \A i \in 1..Len(a.end_condition_analysis) :
                 a.end_condition_analysis[i].likelihood_of_meeting \in 0..100

\* The generative attempt failed and the deterministic strategy returned an
\* analysis with three objectives, one of them at 90%, and two end conditions.
C5_Witness ==
    /\ last.op = "analyze"
    /\ last.result.ok
    /\ last.result.path = <<"generative", "deterministic">>
    /\ Len(last.result.value.objective_progress) = 3
    /\ last.result.value.objective_progress[1].completion_percentage = 90
    /\ Len(last.result.value.end_condition_analysis) = 2

(***************************************************************************)
(* Properties of the conversation memory                                   *)
(***************************************************************************)
\* The six lists: the field of the analysis' key points and the field of
\* the insights record that accumulates it.
ListFields ==
    { <<"main_topics", "all_key_points">>,
      <<"financial_mentions", "all_financial_mentions">>,
      <<"strategic_concepts", "all_strategic_concepts">>,
      <<"stakeholders_mentioned", "all_stakeholders">>,
      <<"action_items", "all_action_items">>,
      <<"concerns_raised", "all_concerns">> }

\* The insights record an update starts from: the one the session has, or
\* the one get_or_create creates for it.
HeldBefore == IF last.before.exists THEN last.before ELSE DefaultInsights

\* C6: from one update to the next, starting from the values the record is
\* created with, the highest impact level and the peak urgency level never
\* go down in the ranking critical/immediate > high > medium > low.
C6_SeverityNeverRegresses ==
    last.op = "store_message_insights" =>
        /\ impact_priority(insights.highest_impact_level) >=
               impact_priority(HeldBefore.highest_impact_level)
        /\ urgency_priority(insights.peak_urgency_level) >=
               urgency_priority(HeldBefore.peak_urgency_level)

AnalysedCount == Len(SelectSeq(messages, IsAnalysedUserMessage))

PhaseRank(p) ==
    CASE p = "opening" -> 1 [] p = "development" -> 2
      [] p = "negotiation" -> 3 [] p = "closing" -> 4 [] OTHER -> 0

\* C7: the phase history walks through opening, development, negotiation,
\* closing in that order with no entry repeated, an update leaves it alone
\* or appends the phase of the current count of analysed user turns
\* (<=2 opening, <=5 development, <=8 negotiation, else closing), and its
\* last entry is the phase of the current count.
C7_PhaseWalk ==
    insights.exists =>
        LET phases == insights.conversation_phases
            n == AnalysedCount
            phase == IF n <= 2 THEN "opening"
                     ELSE IF n <= 5 THEN "development"
                     ELSE IF n <= 8 THEN "negotiation"
                     ELSE "closing"
        IN /\ \A i \in 1..(Len(phases) - 1) :
                 PhaseRank(phases[i]) < PhaseRank(phases[i + 1])
           /\ \A i \in 1..Len(phases) : PhaseRank(phases[i]) >= 1
           /\ phases # <<>> /\ phases[Len(phases)] = phase
           /\ last.op = "store_message_insights" =>
                 \/ phases = HeldBefore.conversation_phases
                 \/ phases = Append(HeldBefore.conversation_phases, phase)

\* Nine analysed user turns: the history holds the four phases.
C7_Witness ==
    /\ insights.exists
    /\ AnalysedCount = 9
    /\ insights.conversation_phases =
           <<"opening", "development", "negotiation", "closing">>

\* Every key-point list of analysis a is within the list record ins holds.
WithinAccumulated(a, ins) ==
    \A f \in ListFields : Range(a.key_points[f[1]]) \subseteq Range(ins[f[2]])

\* C8: storing an analysis whose key-point lists are all within the lists
\* already accumulated leaves every accumulated list with the same items
\* and the same length.
C8_SubsetUpdateKeepsLists ==
    (last.op = "store_message_insights" /\ last.before.exists
        /\ WithinAccumulated(last.analysis, last.before)) =>
        \A f \in ListFields :
            /\ Range(insights[f[2]]) = Range(last.before[f[2]])
            /\ Len(insights[f[2]]) = Len(last.before[f[2]])

\* An analysis with topics and stakeholders, all accumulated already, was stored.
C8_Witness ==
    /\ last.op = "store_message_insights"
    /\ last.before.exists
    /\ WithinAccumulated(last.analysis, last.before)
    /\ last.analysis.key_points.main_topics # <<>>
    /\ last.analysis.key_points.stakeholders_mentioned # <<>>
    /\ Len(last.before.all_key_points) >= 2

C11_AnalyzerThenMemoryThenSynthesizer ==
    last.op = "send_message" =>
        \A i \in 1..Len(last.calls) :
            last.calls[i] = "get_conversation_context" =>
                \E j, k \in 1..Len(last.calls) :
                    /\ j < k /\ k < i
                    /\ last.calls[j] = "analyze_message_comprehensive"
                    /\ last.calls[k] = "store_message_insights"

(***************************************************************************)
(* The response synthesizer                                                *)
(***************************************************************************)
\* C12: for every well-formed analysis (any emotion of the enumeration, any
\* impact and urgency level, any lengths of the key-point lists, all of them
\* empty included) the synthesizer does not raise and returns a response
\* whose content is not empty.
C12_SynthesizeNeverRaises ==
    (last.op = "synthesize" /\ ValidAnalysis(last.analysis)) =>
        /\ last.result.ok
        /\ last.result.value.content # ""

\* C13: the confidence level the synthesizer derives from the length of the
\* response is an integer clamped into 1..10.
C13_ConfidenceLevelClamped ==
    last.op = "synthesize" => last.draft.confidence_level \in 1..10

\* C14: the emotion of the reply a turn returns is one of positive, neutral,
\* skeptical, concerned, encouraging, and where the fixed table has an entry
\* for the user's detected emotion it is that entry; it is never a user-side
\* label.
C14_ReplyEmotionMapped ==
    (last.op = "enhance" /\ last.result.ok) =>
        /\ last.result.value.emotion \in AIResponseEmotions
        /\ LET mapped == emotion_mapping(last.analysis.emotion_analysis.primary_emotion)
           IN mapped # None => last.result.value.emotion = mapped

(***************************************************************************)
(* Objective progress                                                      *)
(***************************************************************************)
\* The strategy that produced the analysis of an analyzer call
ProducedBy(r) == r.path[Len(r.path)]

\* C15: the deterministic strategy gives a message with an acceptance or
\* completion word 90 percent for each tracked objective: a message that
\* says "acepto" or "de acuerdo" yields completion_percentage 90 and
\* is_fully_completed true for the first objective.
C15_AcceptanceCompletesObjective ==
    ( /\ last.op = "analyze"
      /\ last.result.ok
      /\ ProducedBy(last.result) = "deterministic"
      /\ last.user_objectives # <<>>
      /\ \E w \in last.msg : w \in {"acepto", "de acuerdo", "completado"} ) =>
        /\ last.result.value.objective_progress[1].completion_percentage = 90
        /\ last.result.value.objective_progress[1].is_fully_completed

\* C16: in every objective-progress entry of every analysis the analyzer
\* returns, whichever strategy produced it, is_fully_completed is true
\* exactly when completion_percentage is at least 90.
C16_CompletedIffNinety ==
    (last.op = "analyze" /\ last.result.ok) =>
        \A i \in 1..Len(last.result.value.objective_progress) :
            LET entry == last.result.value.objective_progress[i]
            IN entry.is_fully_completed <=> entry.completion_percentage >= 90

\* C17: whatever strategy runs, the analysis has an entry for each of the
\* first 3 objectives and each of the first 2 end conditions of the caller,
\* in the caller's order, and no other entry.
C17_ListsTruncated ==
    (last.op = "analyze" /\ last.result.ok) =>
        LET a == last.result.value
        IN /\ Len(a.objective_progress) = Min(3, Len(last.user_objectives))
           /\ Len(a.end_condition_analysis) = Min(2, Len(last.end_conditions))
           /\ \A i \in 1..Len(a.objective_progress) :
                 a.objective_progress[i].objective_text = last.user_objectives[i]
           /\ \A i \in 1..Len(a.end_condition_analysis) :
                 a.end_condition_analysis[i].condition_text = last.end_conditions[i]

(***************************************************************************)
(* Dominant emotions                                                       *)
(***************************************************************************)
\* The emotions detected in the user turns analysed so far, in turn order
DetectedEmotions ==
    [ i \in 1..Len(analyses) |-> analyses[i].emotion_analysis.primary_emotion ]

\* C18: after each update dominant_emotions lists the (at most 3) most
\* frequent emotions detected in the user turns analysed so far, ties in
\* first-seen order; so the emotion of the turn just analysed is in it when
\* fewer than 3 distinct emotions were detected so far.
C18_DominantEmotionsTopThree ==
    last.op = "store_message_insights" =>
        /\ insights.dominant_emotions =
               Take(ByCountDesc(FirstSeen(DetectedEmotions), DetectedEmotions), 3)
        /\ Cardinality(Range(DetectedEmotions)) <= 3 =>
               last.analysis.emotion_analysis.primary_emotion
                   \in Range(insights.dominant_emotions)

(***************************************************************************)
(* Answering from memory                                                   *)
(***************************************************************************)
\* The financial topics a question can carry: the financial cues, without
\* the letter "k" of an amount such as 50k, which is no topic of its own.
FinancialTopics == FinancialCues \ {"k"}

\* C19: for a question with a summary or key-findings cue (and no financial
\* topic, which would come first) and insights whose accumulated key points
\* are not empty, the answer says can_answer, insight type key_points, and
\* gives between 1 and 5 key points, all of them accumulated key points.
C19_KeyFindingsAnswered ==
    ( /\ last.op = "ask"
      /\ ContainsAny(Lower(last.question), KeyFindingsCues)
      /\ ~ContainsAny(Lower(last.question), FinancialTopics)
      /\ insights.exists
      /\ insights.all_key_points # <<>> ) =>
        /\ last.result.can_answer
        /\ last.result.insight_type = "key_points"
        /\ last.result.relevant_data.relevant_key_points # <<>>
        /\ Len(last.result.relevant_data.relevant_key_points) <= 5
        /\ Range(last.result.relevant_data.relevant_key_points)
               \subseteq Range(insights.all_key_points)

\* C20: a question is classified by the first category, in the order
\* financial, key findings, conversation reference, strategic, stakeholders,
\* actions, concerns, past reference, of which it carries a cue, so a
\* question with a key-findings cue and no financial topic is not classified
\* financial; a question without any cue gets can_answer false and empty
\* data.
C20_FirstMatchingCategory ==
    last.op = "ask" =>
        LET expected == InsightType(Lower(last.question), FinancialTopics)
        IN /\ last.result.insight_type = expected
           /\ last.result.can_answer <=> expected # None
           /\ expected = None => last.result.relevant_data = NoData

(***************************************************************************)
(* Searching the memory                                                    *)
(***************************************************************************)
\* The category of the result and the accumulated list it is drawn from
SearchCategories ==
    { <<"relevant_key_points", "all_key_points">>,
      <<"relevant_financial_data", "all_financial_mentions">>,
      <<"relevant_stakeholders", "all_stakeholders">>,
      <<"relevant_actions", "all_action_items">>,
      <<"relevant_concerns", "all_concerns">> }

\* C21: a search returns, for every category, a list without duplicates
\* that holds the whole accumulated list of that category when the query has
\* a summary cue, and otherwise exactly its items that contain a token of
\* the query, compared in lower case; so no item of one accumulated list
\* shows under another category.
C21_SearchFiltersByToken ==
    (last.op = "search" /\ insights.exists) =>
        /\ last.result.ok
        /\ \A c \in SearchCategories :
              LET found == last.result.value[c[1]]
                  all == insights[c[2]]
                  query_lower == Lower(last.query)
              IN /\ NoDup(found)
                 /\ Range(found) =
                       IF ContainsAny(query_lower, summary_keywords)
                         THEN Range(all)
                       ELSE { all[i] : i \in
                                { k \in 1..Len(all) :
                                    \E word \in Tokens(query_lower) :
                                        Contains(Lower(all[k]), word) } }

(***************************************************************************)
(* Sessions side by side                                                   *)
(***************************************************************************)
\* No request is running
Quiescent == \A r \in Requests : last[r].pc = "idle"

\* The message log and the insights of a session whose turns, with the
\* given texts, run one after the other and alone
RECURSIVE Alone(_)
Alone(texts) ==
    IF texts = <<>> THEN [messages |-> <<>>, insights |-> NoInsights]
    ELSE LET before == Alone(SubSeq(texts, 1, Len(texts) - 1))
             words == texts[Len(texts)]
             created == Append(before.messages,
                               NewMessage("user", Text(FALSE, words), None))
             analysis == analyze_message_comprehensive(
                             llm, words, ScenarioObjectives, <<>>,
                             [kind |-> "unreachable", fields |-> NoValue])
         IN store_message_insights(created, before.insights, Len(created),
                                   analysis.value)

\* The rows of a simulation, in creation order
LogOf(simulation) ==
    LET rows == SelectSeq(messages, LAMBDA row : row.simulation = simulation)
    IN [ i \in 1..Len(rows) |-> rows[i].message ]

\* C22: however the turns of two sessions interleave, once they have
\* finished each session's insights and message log are those of its own
\* turns run alone.
C22_SessionsIndependent ==
    Quiescent =>
        \A simulation \in Sessions :
            /\ insights[simulation] = Alone(analyses[simulation]).insights
            /\ LogOf(simulation) = Alone(analyses[simulation]).messages

\* Both sessions had a turn, with different texts, and the turn of the other
\* session began between two turns of the first
C22_Witness ==
    /\ Quiescent
    /\ Len(messages) = 3
    /\ messages[1].simulation = "s1"
    /\ messages[2].simulation = "s2"
    /\ messages[3].simulation = "s1"
    /\ messages[1].message.content # messages[2].message.content
    /\ insights["s2"].exists

\* C30: when turns of one session run at the same time, once they have
\* finished the session's insights row holds the items of every turn's
\* analysis in its lists, its severity maxima cover every turn, and its
\* phase history has no label twice: an update computed from an older
\* reading of the messages does not overwrite a newer one.
C30_ConcurrentTurnsKeepAll ==
    Quiescent =>
        \A simulation \in Sessions :
            analyses[simulation] # <<>> =>
                LET alone == Alone(analyses[simulation]).insights
                    row == insights[simulation]
                IN /\ row.exists
                   /\ \A f \in ListFields :
                         Range(alone[f[2]]) \subseteq Range(row[f[2]])
                   /\ impact_priority(row.highest_impact_level)
                          >= impact_priority(alone.highest_impact_level)
                   /\ urgency_priority(row.peak_urgency_level)
                          >= urgency_priority(alone.peak_urgency_level)
                   /\ NoDup(row.conversation_phases)

(***************************************************************************)
(* Severity, derived two ways                                              *)
(***************************************************************************)
\* The impact levels of the analyses produced so far, in turn order
ProducedImpacts ==
    [ i \in 1..Len(analyses) |-> analyses[i].business_impact.impact_level ]

C24_ConfidenceModulation ==
    last.op = "_enhance_with_personality" =>
        LET c == last.before.confidence_level
            keys == DOMAIN last.personality
            patience == IF "patience" \in keys
                          THEN last.personality["patience"] ELSE 50
            flexibility == IF "flexibility" \in keys
                             THEN last.personality["flexibility"] ELSE 50
            raised == c + (IF patience < 30 THEN 1 ELSE 0)
                        + (IF flexibility < 30 THEN 1 ELSE 0)
        IN /\ c \in 1..10
           /\ last.response.confidence_level
                = (IF raised < 10 THEN raised ELSE 10)
           /\ last.response.confidence_level \in 1..10
           /\ "analytical" \notin keys =>
                last.response.key_points = last.before.key_points
           /\ "aggression" \notin keys =>
                last.response.emotion = last.before.emotion
           /\ keys = {} => last.response = last.before

\* An impatient and inflexible counterpart raises a confidence of 9 to the
\* ceiling
C24_Witness ==
    /\ last.op = "_enhance_with_personality"
    /\ last.before.confidence_level = 9
    /\ "patience" \in DOMAIN last.personality
    /\ "flexibility" \in DOMAIN last.personality
    /\ last.personality["patience"] < 30
    /\ last.personality["flexibility"] < 30
    /\ last.response.confidence_level = 10

\* The request for data in a text
AsksForData(content) ==
    \/ Contains(Lower(content), "datos")
    \/ Contains(Lower(content), "metricas")

\* C25: for every turn processed for a counterpart whose analytical trait is
\* above 70, the synthesized reply contains a request for data (the request
\* sentence is appended when the draft mentions neither data nor metrics):
\* both the content the synthesizer composes and the reply the turn returns
\* mention data or metrics.
C25_AnalyticalAsksForData ==
    ( /\ last.op \in {"synthesize", "enhance"}
      /\ last.state.ai_personality["analytical"] > 70 ) =>
        /\ last.op = "synthesize" => AsksForData(last.draft.content)
        /\ (last.op = "enhance" /\ last.result.ok) =>
              AsksForData(last.result.value.response)

(***************************************************************************)
(* The follow-up question and the composition of the draft                 *)
(***************************************************************************)
NextStepsQuestion == "?Cuales son los proximos pasos especificos que propone?"

FinancialAssumptionsQuestion ==
    "?Podria compartir su modelo financiero detallado y assumptions de crecimiento?"

\* C26: the suggested follow-up is chosen by priority, whatever the role of
\* the counterpart: urgency immediate gives the next-steps question;
\* otherwise financial mentions give the financial-assumptions question;
\* otherwise concerns give the how-will-you-address-this question, and
\* without concerns the generic question (in both cases neither of the
\* first two).
C26_FollowUpByPriority ==
    last.op = "synthesize" =>
        LET a == last.analysis
            follow_up == last.draft.suggested_follow_up
        IN IF a.business_impact.urgency_level = "immediate"
             THEN follow_up = NextStepsQuestion
           ELSE IF a.key_points.financial_mentions # <<>>
             THEN follow_up = FinancialAssumptionsQuestion
           ELSE follow_up \notin {NextStepsQuestion, FinancialAssumptionsQuestion}

UrgencySentence ==
    "El timing es crucial aqui. Tenemos board meeting en dos semanas y necesitamos clarity antes de esa fecha."

ClosingQuestion == "?Cuales son los proximos pasos concretos?"

\* C27: when the base draft is synthesized (the recommended approach is not
\* executive-level), every applicable component is in the draft, in the
\* order opener, financial sentence, strategic sentence, urgency sentence,
\* action-items sentence, closing question: the urgency sentence whenever
\* the urgency is immediate, the financial sentence whenever there are
\* financial mentions, the action-items sentence whenever there are action
\* items, and the closing question at the end.
C27_DraftHasEveryComponent ==
    ( /\ last.op = "synthesize"
      /\ ~IsExecutiveLevel(last.analysis.recommended_ai_approach) ) =>
        LET a == last.analysis
            draft == _build_executive_response(a, last.state)
        IN /\ a.business_impact.urgency_level = "immediate" =>
                Contains(draft, UrgencySentence)
           /\ a.key_points.financial_mentions # <<>> =>
                Contains(draft, Join(Take(a.key_points.financial_mentions, 2), ", "))
           /\ a.key_points.action_items # <<>> =>
                Contains(draft, "Propongo que nos enfoquemos en")
           /\ Find(draft, ClosingQuestion)
                = Len(draft) - Len(ClosingQuestion) + 1

(***************************************************************************)
(* The message log and the status of a session                             *)
(***************************************************************************)
\* C28: once send_message has returned, with success or with an error, every
\* user message of the log is immediately followed by a counterpart message:
\* a turn that fails leaves no user message without its reply.
C28_NoOrphanUserMessage ==
    \A i \in 1..Len(messages) :
        messages[i].sender = "user" =>
            /\ i < Len(messages)
            /\ messages[i + 1].sender = "ai"

=============================================================================
